---- MODULE Spec2Model ----
(***************************************************************************)
(* Model of the chat-bridger backend core: the Supabase session store      *)
(* (src/openai_agents_extensions/supabase_session.py), the agent loop      *)
(* (src/core/agent_loop.py), the client-tool bridge                        *)
(* (src/core/client_tools.py), the event normalizer                        *)
(* (src/core/event_handlers.py) and the send_message router                *)
(* (src/api/routers/chat.py).                                              *)
(*                                                                         *)
(* A Python str is a sequence of tokens (a character or a word); a dict    *)
(* is a record in which a missing key holds ABSENT.                        *)
(***************************************************************************)
EXTENDS Integers, Sequences, FiniteSets, TLC

\* ------------------------------------------------------------------ bounds
MaxRows == 2      \* rows of the messages table the store model lets a session hold
MaxClock == 4     \* the wall clock stops the store model at this tick
MaxHistory == 4   \* rows a session holds in the request model
MaxRequests == 2  \* requests the request model receives
MaxStart == 6     \* the request model accepts no request after this tick

\* ------------------------------------------------------------- python data
ABSENT == "<absent>"
WS == " "
MARKER == "PENDING_CLIENT_EXECUTION"
NoLimit == -1     \* limit=None

RECURSIVE lstrip(_)
lstrip(s) == IF s = <<>> THEN s ELSE IF Head(s) = WS THEN lstrip(Tail(s)) ELSE s

RECURSIVE rstrip(_)
rstrip(s) ==
  IF s = <<>> THEN s
  ELSE IF s[Len(s)] = WS THEN rstrip(SubSeq(s, 1, Len(s) - 1)) ELSE s

\* str.strip()
strip(s) == rstrip(lstrip(s))

\* `w in s` for the marker word
Contains(s, w) == \E i \in 1..Len(s) : s[i] = w

\* reversed(list)
reversed(s) == [i \in 1..Len(s) |-> s[Len(s) + 1 - i]]

StrContent(s) == [kind |-> "str", str |-> s, parts |-> <<>>]
ListContent(p) == [kind |-> "list", str |-> <<>>, parts |-> p]
NoContent == [kind |-> "absent", str |-> <<>>, parts |-> <<>>]
NullContent == [kind |-> "null", str |-> <<>>, parts |-> <<>>]
Part(t, s) == [type |-> t, text |-> s]

\* A Turn Item: one JSON object of the history.
Item(role, type, content, tool_call_id, call_id, name, output) ==
  [role |-> role, type |-> type, content |-> content,
   tool_call_id |-> tool_call_id, call_id |-> call_id,
   name |-> name, output |-> output]

UserItem(content) == Item("user", ABSENT, content, ABSENT, ABSENT, ABSENT, <<>>)
AssistantItem(s) ==
  Item("assistant", "message", ListContent(<<Part("output_text", s)>>),
       ABSENT, ABSENT, ABSENT, <<>>)
\* {"role": "tool", "tool_call_id": id, "content": s}
ToolItem(id, s) == Item("tool", ABSENT, StrContent(s), id, ABSENT, ABSENT, <<>>)

\* ------------------------------------------------------------ client tools
\* A JSON text is a sequence of tokens; "{" k1 ... kn "}" is an object with
\* the keys k1..kn, and a text that does not close its brace is malformed.
EmptyObject == <<"{", "}">>
Parseable(s) ==
  /\ Len(s) >= 2 /\ s[1] = "{" /\ s[Len(s)] = "}"
  /\ \A i \in 2..(Len(s) - 1) : s[i] \notin {"{", "}"}
\* json.loads(s) of a tool call's arguments: whether it raises, and the
\* object it returns (its keys; the empty list is {})
loads(s) ==
  IF Parseable(s) THEN [raises |-> FALSE, value |-> SubSeq(s, 2, Len(s) - 1)]
  ELSE [raises |-> TRUE, value |-> <<>>]

\* json.dumps({"status": "PENDING_CLIENT_EXECUTION", "tool_name": name,
\*             "tool_call_id": id, "parameters": parameters, "message": ...})
\* with parameters = json.loads(args), or {} when that raises
client_tool_handler(name, id, args) ==
  <<"{", MARKER, name, id>>
    \o (IF loads(args).raises THEN <<>> ELSE loads(args).value) \o <<"}">>

\* ------------------------------------------------------------------- state
MaxSessions == 2  \* session objects initialized at the same time

VARIABLES
  messages,     \* the messages table: rows in insertion order
  updated_at,   \* conversations.updated_at of the session
  clock,        \* the wall clock, in ticks: what _get_current_time() returns next
  coarse,       \* the host's clock can return one value to consecutive reads
  conversation, \* the conversations table holds the row of this session
  initialized,  \* self._initialized of the SupabaseSession object in use
  op,           \* the last session-store operation: its arguments and outcome
  ret,          \* what that operation returned (a list of items)
  pure,         \* no pop_item or clear_session has been called yet
  phase,        \* where the request in flight is: idle, fresh, continuation,
                \* running, done or failed
  request,      \* the MessageRequest in flight
  run,          \* the engine run of the request: its agent, input and progress
  stream,       \* the wire events the response stream has yielded
  nreq,         \* requests received so far
  manager,      \* the ConversationContextManager of the request: has it a session
  agent,        \* the Agent object get_agent_by_key returned: its tools and
                \* tool_use_behavior
  raised,       \* the exception the request's generator raised, or "none"
  raw,          \* the raw events the request's generator has consumed
  response,     \* the HTTP response send_message gave: status and detail
  title,        \* conversations.title of the session
  background,   \* the title task of the request: added, ran or raised, and the
                \* collaborator that failed in it
  connection_pool, \* _connection_pool[pool_key]: the client stored, the clients
                \* created and the writes of the entry so far
  sessions,     \* the session objects being initialized at the same time: where
                \* each is in _ensure_initialized and the client it holds
  conversations, \* the conversations table for one (session_id, user_id): its
                \* rows, those inserted by the sessions, and whether one existed
  mcp,          \* MCPManager: the instances created, the one stored, the server
                \* stored under a name and the connections its factory opened
  callers,      \* the get_agent_by_key calls in flight: where each is, its key
                \* and what it returned or raised
  chats,        \* the conversations table, every user's rows
  svc,          \* the last ChatService call: its arguments, the tables before
                \* it, what it returned or raised, and the pages read so far
  issued,       \* the tokens create_access_token has returned
  token_cache,  \* _token_cache: token -> (user_id, expiration)
  auth,         \* the last _cached_verify_token call: its token, what it
                \* returned and what verify_token returns at the same time
  race          \* a continuation whose rewrite runs beside another request:
                \* where it is, what it read and built, what the other appended

\* no session object is being initialized
PoolIdle ==
  /\ connection_pool = [client |-> 0, created |-> 0, writes |-> 0]
  /\ sessions = [p \in 1..MaxSessions |-> [pc |-> "done", supabase |-> 0]]
  /\ conversations = [rows |-> 0, inserted |-> 0, existed |-> FALSE]

\* a call of get_agent_by_key: pc is where it is, name the name of the Agent
\* returned, message the text of the exception raised, proxy the server its
\* MCPServerProxy wraps, created whether a model or an Agent was constructed
Caller(pc, key, name, message, proxy, created) ==
  [pc |-> pc, key |-> key, name |-> name, message |-> message, proxy |-> proxy,
   created |-> created]
NoCaller == Caller("done", "triage_agent", <<>>, <<>>, 0, FALSE)

\* the application after its startup event (api.py line 35): the manager
\* exists, no server is connected, no agent is being created
McpStarted == [instances |-> 1, instance |-> 1, servers |-> 0, opened |-> 0]
\* a ChatService call and its outcome; page holds the ids of the messages
\* returned, seen and next the pages of a walk at offsets 0, limit, 2*limit
Svc(name, session_id, user_id, exc, old_chats, old_messages) ==
  [name |-> name, session_id |-> session_id, user_id |-> user_id, raised |-> exc,
   old_chats |-> old_chats, old_messages |-> old_messages,
   limit |-> 0, offset |-> 0, page |-> <<>>, total |-> 0, has_more |-> FALSE,
   seen |-> <<>>, next |-> 0]
NoSvc == Svc("none", "s1", "u1", FALSE, <<>>, <<>>)

\* no token has been issued or presented
AuthIdle ==
  /\ issued = {}
  /\ token_cache = <<>>
  /\ auth = [token |-> [sub |-> ABSENT, exp |-> 0], at |-> 0, cached |-> "None",
             direct |-> "None", hit |-> FALSE, evicted |-> FALSE]

\* no continuation is being rewritten
RaceIdle ==
  race = [pc |-> "done", tool_results |-> <<>>, session_items |-> <<>>,
          updated_items |-> <<>>, appended |-> <<>>]

SvcIdle ==
  /\ mcp = McpStarted
  /\ callers = [p \in 1..MaxSessions |-> NoCaller]
  /\ chats = <<>>
  /\ svc = NoSvc
  /\ AuthIdle
  /\ RaceIdle

storeVars == <<messages, updated_at, clock, coarse, conversation, initialized, op, ret,
               pure>>
loopVars == <<phase, request, run, stream, nreq, manager, agent, raised, raw, response,
              title, background>>
vars == <<messages, updated_at, clock, coarse, conversation, initialized, op, ret, pure,
          phase, request, run,
          stream, nreq, manager, agent, raised, raw, response, title, background,
          connection_pool, sessions, conversations, mcp, callers,
          chats, svc, issued, token_cache, auth, race>>
poolVars == <<connection_pool, sessions, conversations>>
svcVars == <<mcp, callers, chats, svc, issued, token_cache, auth, race>>
authVars == <<issued, token_cache, auth, race>>

SessionId == "s1"
UserId == "u1"

\* The stored state of one session: its rows, its conversation row's
\* updated_at, and the clock.
Store(m, u, c) == [messages |-> m, updated_at |-> u, clock |-> c]
Now == Store(messages, updated_at, clock)

\* ---------------------------------------------------------- session store
\* json.dumps(item) / json.loads(message_data)
json_dumps(item) == [json |-> item]
json_loads(s) == s.json

\* the test without .strip(): only the empty string counts as empty
is_empty_user_message_unstripped(item) ==
  IF item.role # "user" THEN FALSE
  ELSE LET content == IF item.content.kind = "absent" THEN StrContent(<<>>)
                      ELSE item.content
           text_parts == SelectSeq(content.parts, LAMBDA p : p.type = "text")
           RECURSIVE cat(_)
           cat(ps) == IF ps = <<>> THEN <<>> ELSE Head(ps).text \o cat(Tail(ps))
       IN CASE content.kind = "str" -> content.str = <<>>
            [] content.kind = "list" -> cat(text_parts) = <<>>
            [] OTHER -> FALSE

\* SupabaseSession._is_empty_user_message
is_empty_user_message(item) ==
  IF item.role # "user" THEN FALSE
  ELSE LET content == IF item.content.kind = "absent" THEN StrContent(<<>>)
                      ELSE item.content
           text_parts == SelectSeq(content.parts, LAMBDA p : p.type = "text")
           RECURSIVE cat(_)
           cat(ps) == IF ps = <<>> THEN <<>> ELSE Head(ps).text \o cat(Tail(ps))
       IN CASE content.kind = "str" -> strip(content.str) = <<>>
            [] content.kind = "list" -> strip(cat(text_parts)) = <<>>
            [] OTHER -> FALSE

\* the rows selected by session_id alone
SessionRows_any_user(m) == {i \in 1..Len(m) : m[i].session_id = SessionId}

\* the rows of this session, as positions in the table:
\* .eq("session_id", self.session_id).eq("user_id", self.user_id)
SessionRows(m) ==
  {i \in 1..Len(m) : m[i].session_id = SessionId /\ m[i].user_id = UserId}

\* .order("created_at", desc=d): every order in which the database may return
\* the rows S of table m; rows with equal created_at come in any order.
RECURSIVE Orders(_, _, _)
Orders(m, S, desc) ==
  IF S = {} THEN {<<>>}
  ELSE LET first == {i \in S : \A j \in S :
                       IF desc THEN m[i].created_at >= m[j].created_at
                       ELSE m[i].created_at <= m[j].created_at}
       IN UNION {{<<i>> \o rest : rest \in Orders(m, S \ {i}, desc)} : i \in first}

OrderBy(m, desc) == Orders(m, SessionRows(m), desc)

\* .limit(n)
Limit(p, n) == SubSeq(p, 1, IF n < Len(p) THEN n ELSE Len(p))

\* get_items(limit): the lists it may return. fail names the storage call
\* that raises ("none": no call raises).
get_items_result(st, limit, fail) ==
  IF fail = "select" THEN {<<>>}
  ELSE {LET data == IF limit = NoLimit THEN p ELSE Limit(p, limit)
            items == [i \in 1..Len(data) |->
                        json_loads(st.messages[data[i]].message_data)]
        IN IF limit # NoLimit THEN reversed(items) ELSE items
          : p \in OrderBy(st.messages, limit # NoLimit)}

Row(item, t) ==
  [session_id |-> SessionId, user_id |-> UserId,
   message_data |-> json_dumps(item), created_at |-> t]

\* The values successive _get_current_time() calls of the list comprehension
\* return for n items, starting at tick t: the wall clock never runs backwards,
\* and on a host with a coarse clock two reads not separated by an awaited call
\* may coincide.
RECURSIVE Stamps(_, _)
Stamps(n, t) ==
  IF n = 0 THEN {<<>>}
  ELSE {<<t>> \o rest :
          rest \in Stamps(n - 1, t + 1) \cup (IF coarse THEN Stamps(n - 1, t) ELSE {})}

\* add_items that returns without touching updated_at when every item was
\* filtered out
add_items_result_filtered_return(st, items, fail) ==
  LET filtered_items == SelectSeq(items, LAMBDA it : ~is_empty_user_message(it))
  IN IF items = <<>> THEN {st}
     ELSE IF filtered_items = <<>> THEN {st}
     ELSE {LET message_data ==
                 [i \in 1..Len(filtered_items) |-> Row(filtered_items[i], ts[i])]
               last == ts[Len(ts)]
           IN IF fail = "insert" THEN Store(st.messages, st.updated_at, last + 1)
              ELSE Store(st.messages \o message_data,
                         IF fail = "update" THEN st.updated_at ELSE last + 1,
                         last + 2)
             : ts \in Stamps(Len(filtered_items), st.clock)}

\* add_items(items): the stores it may leave.
add_items_result(st, items, fail) ==
  LET filtered_items == SelectSeq(items, LAMBDA it : ~is_empty_user_message(it))
  IN IF items = <<>> THEN {st}                     \* if not items: return
     ELSE IF filtered_items = <<>>
     THEN \* all items were filtered out: just update the timestamp
          {Store(st.messages,
                 IF fail = "update" THEN st.updated_at ELSE st.clock,
                 st.clock + 1)}
     ELSE {LET message_data ==
                 [i \in 1..Len(filtered_items) |-> Row(filtered_items[i], ts[i])]
               last == ts[Len(ts)]
           IN IF fail = "insert" THEN Store(st.messages, st.updated_at, last + 1)
              ELSE Store(st.messages \o message_data,
                         IF fail = "update" THEN st.updated_at ELSE last + 1,
                         last + 2)
             : ts \in Stamps(Len(filtered_items), st.clock)}

\* the storage calls of add_items(items) that can raise
AddFails(items) ==
  IF items = <<>> THEN {"none"}
  ELSE IF \A i \in 1..Len(items) : is_empty_user_message(items[i])
  THEN {"none", "update"}
  ELSE {"none", "insert", "update"}

\* pop_item(): the pairs <<store left, item returned (as a list)>>.
pop_item_result(st, fail) ==
  IF fail = "select" THEN {<<st, <<>> >>}
  ELSE {LET data == Limit(p, 1)
        IN IF data = <<>> THEN <<st, <<>> >>     \* if not result.data: return None
           ELSE LET m == st.messages
                    message == m[data[1]]
                    kept == [i \in 1..(Len(m) - 1) |->
                               IF i < data[1] THEN m[i] ELSE m[i + 1]]
                IN IF fail = "delete" THEN <<st, <<>> >>
                   ELSE IF fail = "update"
                   THEN <<Store(kept, st.updated_at, st.clock), <<>> >>
                   ELSE <<Store(kept, st.clock, st.clock + 1),
                          <<json_loads(message.message_data)>> >>
          : p \in OrderBy(st.messages, TRUE)}

\* clear_session() without its delete of the session's rows
clear_session_result_rows_kept(st, fail) ==
  IF fail = "delete" THEN st
  ELSE IF fail = "update" THEN Store(st.messages, st.updated_at, st.clock)
  ELSE Store(st.messages, st.clock, st.clock + 1)

\* clear_session(): the store it leaves.
clear_session_result(st, fail) ==
  LET kept == SelectSeq(st.messages,
                LAMBDA r : ~(r.session_id = SessionId /\ r.user_id = UserId))
  IN IF fail = "delete" THEN st
     ELSE IF fail = "update" THEN Store(kept, st.updated_at, st.clock)
     ELSE Store(kept, st.clock, st.clock + 1)

\* The record of a call: its name, the length of the list given to add_items,
\* the limit given to get_items, the storage call that raised, and the
\* session's updated_at and number of rows when it was called.
Op(name, n_items, limit, failed) ==
  [name |-> name, n_items |-> n_items, limit |-> limit, failed |-> failed,
   raised |-> FALSE,
   old_updated_at |-> updated_at, old_len |-> Len(messages),
   old_items |-> <<>>, session_items |-> <<>>, updated_items |-> <<>>,
   tool_results |-> <<>>]

\* _ensure_initialized (lines 76-82) on a session object whose _initialized
\* is init, conv telling whether the conversation row exists: whether it
\* raised, the store it leaves, and whether the row exists afterwards.
\* _get_or_create_client is not guarded; _load_session and _create_session
\* catch their own failures.
ensure_initialized_result(st, conv, init, finit) ==
  IF init THEN [raised |-> FALSE, st |-> st, conversation |-> conv]
  ELSE IF finit = "client" THEN [raised |-> TRUE, st |-> st, conversation |-> conv]
  ELSE IF conv
  THEN \* the row is found, or the load failed and the insert of a second row
       \* changes nothing of this session
       [raised |-> FALSE, st |-> st, conversation |-> TRUE]
  ELSE IF finit = "create"
  THEN [raised |-> FALSE, st |-> Store(st.messages, st.updated_at, st.clock + 1),
        conversation |-> FALSE]
  ELSE [raised |-> FALSE, st |-> Store(st.messages, st.clock, st.clock + 1),
        conversation |-> TRUE]

\* the failures _ensure_initialized can meet
InitFails ==
  IF initialized THEN {"none"}
  ELSE IF conversation THEN {"none", "client", "load"}
  ELSE {"none", "client", "load", "create"}

Ensured(finit) == ensure_initialized_result(Now, conversation, initialized, finit)

\* The session after an operation that got past _ensure_initialized with
\* outcome e and left store st; an update of updated_at finds no row when
\* the conversation row does not exist.
SetStore(st, e) ==
  /\ messages' = st.messages
  /\ updated_at' = IF e.conversation THEN st.updated_at ELSE updated_at
  /\ clock' = st.clock
  /\ conversation' = e.conversation
  /\ initialized' = TRUE
  /\ UNCHANGED coarse

\* The operation raised out of _ensure_initialized: nothing was done.
Raises(name, n_items, limit) ==
  /\ op' = [Op(name, n_items, limit, "client") EXCEPT !.raised = TRUE]
  /\ ret' = <<>>
  /\ UNCHANGED <<messages, updated_at, clock, coarse, conversation, initialized, pure>>

get_items(limit, fail, finit) ==
  /\ UNCHANGED <<poolVars, svcVars>>
  /\ initialized \/ clock < MaxClock
  /\ fail \in {"none", "select"}
  /\ finit \in InitFails
  /\ LET e == Ensured(finit)
     IN IF e.raised THEN fail = "none" /\ Raises("get_items", 0, limit)
        ELSE /\ ret' \in get_items_result(e.st, limit, fail)
             /\ op' = Op("get_items", 0, limit, fail)
             /\ SetStore(e.st, e)
             /\ UNCHANGED pure
  /\ UNCHANGED loopVars

add_items(items, fail, finit) ==
  /\ UNCHANGED <<poolVars, svcVars>>
  /\ clock < MaxClock
  /\ fail \in AddFails(items)
  /\ finit \in InitFails
  /\ LET e == Ensured(finit)
     IN IF items = <<>>
        THEN \* "if not items: return" comes before _ensure_initialized
             /\ finit = "none"
             /\ op' = Op("add_items", 0, NoLimit, fail)
             /\ ret' = <<>>
             /\ UNCHANGED <<messages, updated_at, clock, coarse, conversation,
                            initialized, pure>>
        ELSE IF e.raised THEN fail = "none" /\ Raises("add_items", Len(items), NoLimit)
        ELSE /\ \E st \in add_items_result(e.st, items, fail) :
                  /\ Cardinality(SessionRows(st.messages)) <= MaxRows
                  /\ SetStore(st, e)
             /\ ret' = <<>>
             /\ op' = Op("add_items", Len(items), NoLimit, fail)
             /\ UNCHANGED pure
  /\ UNCHANGED loopVars

pop_item(fail, finit) ==
  /\ UNCHANGED <<poolVars, svcVars>>
  /\ clock < MaxClock
  /\ fail \in {"none", "select", "delete", "update"}
  /\ finit \in InitFails
  /\ LET e == Ensured(finit)
     IN IF e.raised THEN fail = "none" /\ Raises("pop_item", 0, NoLimit)
        ELSE /\ \E r \in pop_item_result(e.st, fail) :
                  /\ SetStore(r[1], e)
                  /\ ret' = r[2]
             /\ op' = Op("pop_item", 0, NoLimit, fail)
             /\ pure' = FALSE
  /\ UNCHANGED loopVars

clear_session(fail, finit) ==
  /\ UNCHANGED <<poolVars, svcVars>>
  /\ clock < MaxClock
  /\ fail \in {"none", "delete", "update"}
  /\ finit \in InitFails
  /\ LET e == Ensured(finit)
     IN IF e.raised
        THEN fail = "none" /\ Raises("clear_session", 0, NoLimit)
        ELSE /\ SetStore(clear_session_result(e.st, fail), e)
             /\ ret' = <<>>
             /\ op' = Op("clear_session", 0, NoLimit, fail)
             /\ pure' = FALSE
  /\ UNCHANGED loopVars

\* ------------------------------------------------ agent loop: the resume
\* Optional[str]: None, or a str
None == [some |-> FALSE, str |-> <<>>]
Some(s) == [some |-> TRUE, str |-> s]
\* x or y, for an Optional[str] x: None and "" are falsy
OrElse(x, y) == IF x.some /\ x.str # <<>> THEN x.str ELSE y

ClientToolResult(tool_call_id, tool_name, result, error) ==
  [tool_call_id |-> tool_call_id, tool_name |-> tool_name,
   result |-> result, error |-> error]

\* f"Tool {tool_name} executed successfully"
ExecutedSuccessfully(tool_name) == <<"Tool", tool_name, "executed successfully">>

\* the test of agent_loop.py lines 90-94
IsPending(item_dict) ==
  /\ item_dict.role = "tool"
  /\ item_dict.content.kind = "str"
  /\ Contains(item_dict.content.str, MARKER)

\* the inner loop taking the first result when no call id matches
ReplacePending_first(item_dict, tool_results) ==
  LET hits == {i \in 1..Len(tool_results) :
                 item_dict.tool_call_id = tool_results[i].tool_call_id}
      pick == IF hits = {} THEN 1 ELSE CHOOSE i \in hits : \A j \in hits : i <= j
  IN IF tool_results = <<>> THEN <<>>
     ELSE <<ToolItem(tool_results[pick].tool_call_id,
                     OrElse(tool_results[pick].result,
                            ExecutedSuccessfully(tool_results[pick].tool_name)))>>

\* the inner loop over tool_results: what one pending item contributes
ReplacePending(item_dict, tool_results) ==
  LET hits == {i \in 1..Len(tool_results) :
                 item_dict.tool_call_id = tool_results[i].tool_call_id}
  IN IF hits = {} THEN <<>>
     ELSE LET tool_result == tool_results[CHOOSE i \in hits : \A j \in hits : i <= j]
          IN <<ToolItem(tool_result.tool_call_id,
                        OrElse(tool_result.result,
                               ExecutedSuccessfully(tool_result.tool_name)))>>

\* the loop over session_items building updated_items
RECURSIVE UpdatedItems(_, _)
UpdatedItems(session_items, tool_results) ==
  IF session_items = <<>> THEN <<>>
  ELSE LET item_dict == Head(session_items)
       IN (IF IsPending(item_dict) THEN ReplacePending(item_dict, tool_results)
           ELSE <<item_dict>>)
          \o UpdatedItems(Tail(session_items), tool_results)

\* the items of the session's rows, in table order
Stored(m) ==
  LET mine == SelectSeq(m, LAMBDA r : r.session_id = SessionId /\ r.user_id = UserId)
  IN [i \in 1..Len(mine) |-> json_loads(mine[i].message_data)]

\* the rewrite whose add_items has not returned when the run is started
rewrite_result_cleared(st, tool_results, fget, fclear, fadd) ==
  UNION {{<<clear_session_result(st, fclear), session_items,
            UpdatedItems(session_items, tool_results)>>}
           : session_items \in get_items_result(st, NoLimit, fget)}

\* continue_after_client_tools up to the rewrite (lines 72-118): the triples
\* <<store left, session_items read, updated_items written>>.
rewrite_result(st, tool_results, fget, fclear, fadd) ==
  UNION {{<<st2, session_items, UpdatedItems(session_items, tool_results)>> :
            st2 \in add_items_result(clear_session_result(st, fclear),
                                     UpdatedItems(session_items, tool_results), fadd)}
           : session_items \in get_items_result(st, NoLimit, fget)}

\* The rewrite once the session is initialized with outcome e.
RewriteDone(e, tool_results, fget, fclear, fadd) ==
  /\ \E r \in rewrite_result(e.st, tool_results, fget, fclear, fadd) :
       /\ fadd \in AddFails(r[3])
       /\ Len(r[1].messages) <= MaxHistory
       /\ SetStore(r[1], e)
       /\ op' = [Op("rewrite", Len(r[3]), NoLimit,
                    IF fget # "none" THEN fget
                    ELSE IF fclear # "none" THEN fclear ELSE fadd)
                   EXCEPT !.old_items = Stored(messages),
                          !.session_items = r[2],
                          !.updated_items = r[3],
                          !.tool_results = tool_results]
  /\ ret' = <<>>
  /\ pure' = FALSE

\* The rewrite acting on the session (lines 75-118).
RewriteStep(tool_results, fget, fclear, fadd, finit) ==
  /\ finit \in InitFails
  /\ LET e == Ensured(finit)
     IN IF e.raised
        THEN \* session.get_items() raises out of the resumption
             /\ fget = "none" /\ fclear = "none" /\ fadd = "none"
             /\ Raises("rewrite", 0, NoLimit)
        ELSE RewriteDone(e, tool_results, fget, fclear, fadd)

\* the rewrite of a continuation, as one step of the session
continue_rewrite(tool_results, fget, fclear, fadd, finit) ==
  /\ UNCHANGED <<poolVars, svcVars>>
  /\ clock < MaxClock
  /\ tool_results # <<>>
  /\ RewriteStep(tool_results, fget, fclear, fadd, finit)
  /\ UNCHANGED loopVars

\* ---------------------------------------------------- event normalizer
\* A raw event: cls is its class ("dict" for the custom control events), name
\* the run-item name or the dict's "type", data the class of event.data.
\* arguments is raw_item.arguments of a tool call ("{}" when it has none).
RawEvent(cls, name, data, call_id, tool_name, output) ==
  [cls |-> cls, name |-> name, data |-> data,
   call_id |-> call_id, tool_name |-> tool_name, output |-> output,
   arguments |-> EmptyObject]

\* the tool_called event of a call with the argument text arguments
ToolCalled(call_id, tool_name, arguments) ==
  [RawEvent("RunItemStreamEvent", "tool_called", ABSENT, call_id, tool_name, <<>>)
     EXCEPT !.arguments = arguments]

\* arguments is data.arguments of a tool_call event: the keys of the object
WireEvent(type, call_id, tool_name, output) ==
  [type |-> type, call_id |-> call_id, tool_name |-> tool_name, output |-> output,
   arguments |-> <<>>]

\* the handler that lets json.loads raise out of the normalizer: no event
ToolCallHandler_strict(event) ==
  IF loads(event.arguments).raises THEN <<>>
  ELSE <<[WireEvent("tool_call", event.call_id, event.tool_name, event.output)
            EXCEPT !.arguments = loads(event.arguments).value]>>

\* ToolCallHandler.handle (lines 55-92): tool_args is json.loads(arguments),
\* or {} when that raises
ToolCallHandler(event) ==
  <<[WireEvent("tool_call", event.call_id, event.tool_name, event.output)
       EXCEPT !.arguments = IF loads(event.arguments).raises THEN <<>>
                            ELSE loads(event.arguments).value]>>

\* EventProcessor.run_item_handlers: the wire type each handler returns
run_item_handlers ==
  [tool_called |-> "tool_call", tool_output |-> "tool_output",
   message_output_created |-> "message_output",
   handoff_requested |-> "handoff_requested",
   reasoning_item_created |-> "reasoning_created",
   mcp_approval_requested |-> "mcp_approval_requested",
   mcp_list_tools |-> "mcp_list_tools"]

\* EventProcessor.response_data_handlers
response_data_handlers ==
  [ResponseTextDeltaEvent |-> "text_delta",
   ResponseCreatedEvent |-> "response_created",
   ResponseOutputItemAddedEvent |-> "output_item_added",
   ResponseContentPartAddedEvent |-> "content_part_added",
   ResponseContentPartDoneEvent |-> "content_part_done",
   ResponseOutputItemDoneEvent |-> "output_item_done",
   ResponseFunctionCallArgumentsDeltaEvent |-> "function_call_arguments_delta",
   ResponseCompletedEvent |-> "response_completed"]

\* an attribute the object does not have
MISSING == "<missing>"

\* process_event(event) raises: ToolCallHandler reads raw_item.call_id (line
\* 62) and ToolOutputHandler raw_item["call_id"] (line 103) unguarded
process_event_raises(event) ==
  /\ event.cls = "RunItemStreamEvent"
  /\ event.name \in {"tool_called", "tool_output"}
  /\ event.call_id = MISSING

\* an unhandled event passed on under its own name
unhandled_echo(event) == <<WireEvent(event.name, ABSENT, ABSENT, <<>>)>>

\* lines 485-489: an event no branch took is logged and None is returned
unhandled(event) == <<>>

\* process_event(event): the wire event it returns, as a list (None, or no
\* value because it raised: empty)
process_event(event) ==
  IF process_event_raises(event) THEN <<>>
  ELSE IF event.cls = "dict"
       /\ event.name \in {"client_tool_call", "execution_paused",
                          "client_tool_execution_required", "done"}
  THEN <<WireEvent(event.name, event.call_id, event.tool_name, event.output)>>
  ELSE IF event.cls = "AgentUpdatedStreamEvent"
  THEN <<WireEvent("agent_updated", ABSENT, ABSENT, <<>>)>>
  ELSE IF event.cls = "RunItemStreamEvent" /\ event.name = "tool_called"
  THEN ToolCallHandler(event)
  ELSE IF event.cls = "RunItemStreamEvent" /\ event.name \in DOMAIN run_item_handlers
  THEN <<WireEvent(run_item_handlers[event.name], event.call_id, event.tool_name,
                   event.output)>>
  ELSE IF event.data # ABSENT /\ event.data \in DOMAIN response_data_handlers
  THEN <<WireEvent(response_data_handlers[event.data], ABSENT, ABSENT, event.output)>>
  ELSE unhandled(event)

\* the loop body with the new line put before the lines already yielded
loop_body_first(lines, event) == process_event(event) \o lines

\* The body of "async for event in ...stream_events()" (lines 54-60 and
\* 129-135): the lines yielded once event has been consumed.
loop_body(lines, event) == lines \o process_event(event)

\* the lines the generator yields for a list of raw events, in order
RECURSIVE Yielded(_)
Yielded(events) ==
  IF events = <<>> THEN <<>>
  ELSE process_event(Head(events)) \o Yielded(Tail(events))

\* ------------------------------------------------------------ the request
\* Optional[List[...]]
NoneList == [some |-> FALSE, list |-> <<>>]
SomeList(l) == [some |-> TRUE, list |-> l]
\* bool(x) of an optional list
Truthy(x) == x.some /\ x.list # <<>>

\* class AgentKey(str, Enum): its values
AgentKey == {"chat_title_renamer", "history_tutor", "math_tutor", "triage_agent"}

MessageRequest(message, client_tools, tool_results, agent_key) ==
  [message |-> message, client_tools |-> client_tools, tool_results |-> tool_results,
   agent_key |-> agent_key]

NoRequest == MessageRequest(<<>>, NoneList, NoneList, "triage_agent")

\* The HTTP response of send_message: 200 with the stream as its body, or an
\* HTTPException's status and detail; status 0: no response (yet).
Response(status, detail) == [status |-> status, detail |-> detail]
NoResponse == Response(0, <<>>)

\* str(HTTPException(status_code, detail)): "status_code: detail"
HTTPExceptionStr(status, detail) == <<status>> \o detail

\* The title task: not added, added to the response's background tasks, or
\* run (to its end, or raising to its caller), with the collaborator that
\* failed in it.
Background(state, failed) == [state |-> state, failed |-> failed]
NoBackground == Background("none", "none")

NewChat == <<"New Chat">>

\* the title cut to 50 characters (lines 77-78)
Limit50(t) == IF Len(t) > 50 THEN SubSeq(t, 1, 47) \o <<"...">> ELSE t
\* a pair of surrounding quotes q removed (lines 71-74)
Unquote(t, q) == IF t # <<>> /\ t[1] = q /\ t[Len(t)] = q THEN SubSeq(t, 2, Len(t) - 1) ELSE t
\* lines 68-78: result.final_output.strip() without quotes, cut to 50
CleanTitle(final_output) == Limit50(Unquote(Unquote(strip(final_output), "\""), "'"))

\* the task without its try/except: a failing collaborator raises to the caller
generate_title_unguarded(t, conv, m, fail, final_output) ==
  IF fail = "lookup" \/ ~conv THEN [raised |-> TRUE, title |-> t]
  ELSE IF SessionRows(m) = {} THEN [raised |-> FALSE, title |-> t]
  ELSE IF t \in {NewChat, <<"New Conversation">>} /\ fail = "run"
  THEN [raised |-> TRUE, title |-> t]
  ELSE IF t \notin {NewChat, <<"New Conversation">>} \/ CleanTitle(final_output) = <<>>
  THEN [raised |-> FALSE, title |-> t]
  ELSE IF fail = "update" THEN [raised |-> TRUE, title |-> t]
  ELSE [raised |-> FALSE, title |-> CleanTitle(final_output)]

\* ChatTitleRenamer.generate_title_in_background_and_update on a conversation
\* with title t (conv: its row exists) and messages table m: whether it raises
\* to its caller and the title it leaves. fail names the collaborator that
\* raises: the conversation lookup, the agent run or the title update.
generate_title_in_background_and_update(t, conv, m, fail, final_output) ==
  IF fail = "lookup" \/ ~conv THEN [raised |-> FALSE, title |-> t]   \* except Exception
  ELSE IF SessionRows(m) = {} THEN [raised |-> FALSE, title |-> t]
  ELSE IF t \notin {NewChat, <<"New Conversation">>} THEN [raised |-> FALSE, title |-> t]
  ELSE IF fail = "run" THEN [raised |-> FALSE, title |-> t]
  ELSE IF CleanTitle(final_output) = <<>> THEN [raised |-> FALSE, title |-> t]
  ELSE IF fail = "update" THEN [raised |-> FALSE, title |-> t]
  ELSE [raised |-> FALSE, title |-> CleanTitle(final_output)]

\* ConversationContextManager(session)
ConversationContextManager(session) == [session |-> session]

\* an Agent: its tools and tool_use_behavior (the names it stops at)
Agent(tools, tool_use_behavior) == [tools |-> tools, tool_use_behavior |-> tool_use_behavior]

\* the decision taken on "tool_results is not None"
is_continuation_not_none(req) == req.tool_results.some

\* send_message line 126
is_continuation(req) == Truthy(req.tool_results)

\* the tools of the agent get_agent_by_key returns
AgentTools == <<"calculator">>

\* a budget of one turn more
max_turns_more == 5 + 1

\* max_turns=5 (lines 53 and 127)
max_turns == 5

\* ClientToolDefinition: name and params_schema; the schema is absent
\* ("none"), one FunctionTool accepts ("strict") or one it rejects ("loose").
ClientToolDefinition(name, params_schema) ==
  [name |-> name, params_schema |-> params_schema]

\* the names of a list of tool definitions, in order
Names(l) == [i \in 1..Len(l) |-> l[i].name]

\* create_client_tool_function(client_tool) raises
create_client_tool_function_fails(client_tool) == client_tool.params_schema = "loose"

\* convert_client_tools_to_function_tools: the stubs (by name) of the
\* definitions whose conversion does not raise, in order
convert_client_tools_to_function_tools(client_tools) ==
  IF ~Truthy(client_tools) THEN <<>>
  ELSE Names(SelectSeq(client_tools.list,
                       LAMBDA t : ~create_client_tool_function_fails(t)))

\* An engine run: the agent it runs (tools, the names it stops at, the names
\* that are client stubs), its input, the turns started, the items produced.
Run(mode, tools, stop_at, stubs, input) ==
  [mode |-> mode, tools |-> tools, stop_at |-> stop_at, stubs |-> stubs,
   input |-> input, turns |-> 0, new_items |-> <<>>, halted |-> FALSE]

NoRun == Run("none", <<>>, {}, {}, <<>>)

Range(f) == {f[i] : i \in DOMAIN f}

\* the Agent object after a call that attaches the tools to it in place
template_after_shared(a, client_tools) ==
  IF Truthy(client_tools)
  THEN Agent(a.tools \o convert_client_tools_to_function_tools(client_tools),
             Range(Names(client_tools.list)))
  ELSE a

\* The Agent object passed in, after run_agent_stream or
\* continue_after_client_tools: agent.clone() copies it and the tools are
\* attached to the copy as a new list (lines 27-33, 121).
template_after(a, client_tools) == a

\* the run started without tool_use_behavior
run_agent_stream_run_no_stop(a, message, client_tools) ==
  IF Truthy(client_tools)
  THEN Run("fresh",
           a.tools \o convert_client_tools_to_function_tools(client_tools),
           {},
           Range(convert_client_tools_to_function_tools(client_tools)),
           message)
  ELSE Run("fresh", a.tools, a.tool_use_behavior, {}, message)

\* run_agent_stream lines 26-54: the run it starts
run_agent_stream_run(a, message, client_tools) ==
  IF Truthy(client_tools)
  THEN Run("fresh",
           a.tools \o convert_client_tools_to_function_tools(client_tools),
           Range(Names(client_tools.list)),
           Range(convert_client_tools_to_function_tools(client_tools)),
           message)
  ELSE Run("fresh", a.tools, a.tool_use_behavior, {}, message)

\* continue_after_client_tools lines 120-129: the run it starts
continue_run(a) == Run("continuation", a.tools, a.tool_use_behavior, {}, <<>>)

\* The call ids the model gives its tool calls, by turn.
CallIds == <<"call_x", "call_y", "call_3", "call_4", "call_5", "call_6">>

\* What the engine persists for a tool call and its output: the items
\* ToolCallHandler and ToolOutputHandler read (raw_item.call_id, raw_item.name,
\* raw_item["call_id"], item.output).
FunctionCallItem(id, name) ==
  Item(ABSENT, "function_call", NoContent, ABSENT, id, name, <<>>)
FunctionCallOutputItem(id, output) ==
  Item(ABSENT, "function_call_output", NoContent, ABSENT, id, ABSENT, output)

\* send_message: the request is received and its generator chosen.
send_message(req, finit) ==
  /\ UNCHANGED <<poolVars, svcVars>>
  /\ phase \in {"idle", "done", "failed"}
  /\ ~(phase = "done" /\ background.state = "added")   \* the title task comes first
  /\ UNCHANGED title
  /\ nreq < MaxRequests
  /\ clock <= MaxStart
  /\ finit \in {"none", "client", "load"} \cup (IF conversation THEN {} ELSE {"create"})
  /\ nreq' = nreq + 1
  /\ request' = req
  /\ run' = NoRun
  /\ stream' = <<>>
  /\ raw' = <<>>
  /\ manager' = ConversationContextManager(TRUE)
  /\ UNCHANGED agent
  /\ LET \* SupabaseSession.create: a new object, then _ensure_initialized
         e == ensure_initialized_result(Now, conversation, FALSE, finit)
     IN IF e.raised
        THEN \* "except Exception" (chat.py): HTTPException(500), no stream
             /\ phase' = "failed"
             /\ raised' = "HTTPException"
             /\ response' = Response(500, <<"acreate_client failed">>)
             /\ background' = NoBackground
             /\ op' = [Op("create", 0, NoLimit, finit) EXCEPT !.raised = TRUE]
             /\ initialized' = FALSE
             /\ UNCHANGED <<messages, updated_at, clock, coarse, conversation, ret, pure>>
        ELSE IF req.agent_key \notin AgentKey
        THEN \* AgentKey(request.agent_key) raises ValueError: HTTPException(400)
             \* is raised inside the try and caught by "except Exception",
             \* which raises HTTPException(500, detail=str(e))
             /\ phase' = "failed"
             /\ raised' = "HTTPException"
             /\ response' = Response(500, HTTPExceptionStr(
                                            "400", <<"Invalid agent key:", req.agent_key>>))
             /\ background' = NoBackground
             /\ SetStore(e.st, e)
             /\ op' = Op("create", 0, NoLimit, finit)
             /\ UNCHANGED <<ret, pure>>
        ELSE /\ phase' = IF is_continuation(req) THEN "continuation" ELSE "fresh"
             /\ raised' = "none"
             /\ response' = Response(200, <<>>)
             /\ background' = Background("added", "none")
             /\ SetStore(e.st, e)
             /\ op' = Op("create", 0, NoLimit, finit)
             /\ UNCHANGED <<ret, pure>>

\* The background task of the response runs once the stream has been sent.
title_task(fail, final_output) ==
  /\ UNCHANGED <<poolVars, svcVars>>
  /\ phase = "done"
  /\ background.state = "added"
  /\ LET r == generate_title_in_background_and_update(title, conversation, messages,
                                                       fail, final_output)
     IN /\ title' = r.title
        /\ background' = Background(IF r.raised THEN "raised" ELSE "ran", fail)
  /\ UNCHANGED <<phase, request, run, stream, nreq, manager, agent, raised, raw, response>>
  /\ UNCHANGED storeVars

\* AgentLoop.continue_after_client_tools called by a caller whose
\* ConversationContextManager holds no session.
call_continue(tool_results) ==
  /\ UNCHANGED <<poolVars, svcVars>>
  /\ phase \in {"idle", "done", "failed"}
  /\ nreq < MaxRequests
  /\ clock <= MaxStart
  /\ nreq' = nreq + 1
  /\ request' = MessageRequest(<<>>, NoneList, SomeList(tool_results), "triage_agent")
  /\ response' = NoResponse
  /\ background' = NoBackground
  /\ UNCHANGED title
  /\ phase' = "continuation"
  /\ run' = NoRun
  /\ stream' = <<>>
  /\ raw' = <<>>
  /\ manager' = ConversationContextManager(FALSE)
  /\ raised' = "none"
  /\ UNCHANGED agent
  /\ UNCHANGED storeVars

\* run_agent_stream up to the start of the engine
run_agent_stream ==
  /\ UNCHANGED <<poolVars, svcVars>>
  /\ phase = "fresh"
  /\ run' = run_agent_stream_run(agent, request.message, request.client_tools)
  /\ agent' = template_after(agent, request.client_tools)
  /\ raw' = <<RawEvent("AgentUpdatedStreamEvent", ABSENT, ABSENT, ABSENT, ABSENT, <<>>)>>
  /\ stream' = Yielded(raw')
  /\ phase' = "running"
  /\ UNCHANGED <<request, nreq, manager, raised, response, title, background>>
  /\ UNCHANGED storeVars

\* the test that never raises
session_missing_unchecked(conversation_manager) == FALSE

\* "if not conversation_manager.session" (line 72)
session_missing(conversation_manager) == ~conversation_manager.session

\* continue_after_client_tools up to the start of the engine
continue_after_client_tools(fget, fclear, fadd) ==
  /\ UNCHANGED <<poolVars, svcVars>>
  /\ phase = "continuation"
  /\ UNCHANGED <<request, nreq, manager, agent, response, title, background>>
  /\ IF session_missing(manager)
     THEN \* raise ValueError("Session required for continuation")
          /\ fget = "none" /\ fclear = "none" /\ fadd = "none"
          /\ raised' = "ValueError"
          /\ phase' = "failed"
          /\ UNCHANGED <<run, stream, raw>>
          /\ UNCHANGED storeVars
     ELSE /\ RewriteStep(request.tool_results.list, fget, fclear, fadd, "none")
          /\ run' = continue_run(agent)
          /\ raw' = <<RawEvent("AgentUpdatedStreamEvent", ABSENT, ABSENT, ABSENT,
                               ABSENT, <<>>)>>
          /\ stream' = Yielded(raw')
          /\ phase' = "running"
          /\ UNCHANGED raised

\* The engine saves the turn: the input item and the items produced.
SaveResult(new_items, fail) ==
  LET items == <<UserItem(StrContent(run.input))>> \o new_items
  IN /\ fail \in AddFails(items)
     /\ Len(messages) + Len(items) <= MaxHistory + 1
     /\ \E st \in add_items_result(Now, items, fail) :
          /\ Len(st.messages) <= MaxHistory
          /\ SetStore(st, Ensured("none"))
     /\ op' = Op("add_items", Len(items), NoLimit, fail)
     /\ ret' = <<>>
     /\ UNCHANGED pure

\* the exception of a model call that fails (openai.APIError)
APIError == "APIError"

\* One turn of Runner.run_streamed(...).stream_events(): the model answers with
\* a message (choice "message") or calls the tool named choice; the events of
\* the turn are normalized and yielded in order.
engine_turn(choice, arguments, fail) ==
  /\ UNCHANGED <<poolVars, svcVars>>
  /\ phase = "running"
  /\ choice \in {"message", APIError} \cup Range(run.tools)
  /\ choice \notin run.stubs => arguments = EmptyObject
  /\ UNCHANGED <<request, nreq, manager, agent, response, title, background>>
  /\ raised' = IF run.turns >= max_turns THEN "MaxTurnsExceeded"
               ELSE IF choice = APIError THEN APIError ELSE raised
  /\ IF run.turns >= max_turns
     THEN \* MaxTurnsExceeded
          /\ fail = "none"
          /\ phase' = "failed"
          /\ UNCHANGED <<run, stream, raw>>
          /\ UNCHANGED storeVars
     ELSE IF choice = APIError
     THEN \* the model call of the turn raises out of stream_events()
          /\ fail = "none"
          /\ phase' = "failed"
          /\ UNCHANGED <<run, stream, raw>>
          /\ UNCHANGED storeVars
     ELSE IF choice = "message"
     THEN LET events ==
                <<RawEvent("RawResponsesStreamEvent", ABSENT, "ResponseCreatedEvent",
                           ABSENT, ABSENT, <<>>),
                  RawEvent("RawResponsesStreamEvent", ABSENT, "ResponseInProgressEvent",
                           ABSENT, ABSENT, <<>>),
                  RawEvent("RawResponsesStreamEvent", ABSENT, "ResponseTextDeltaEvent",
                           ABSENT, ABSENT, <<"ok">>),
                  RawEvent("RunItemStreamEvent", "message_output_created", ABSENT,
                           ABSENT, ABSENT, <<"ok">>)>>
              new_items == run.new_items \o <<AssistantItem(<<"ok">>)>>
          IN /\ stream' = stream \o Yielded(events)
             /\ raw' = raw \o events
             /\ run' = [run EXCEPT !.turns = @ + 1, !.new_items = new_items]
             /\ phase' = "done"
             /\ SaveResult(new_items, fail)
     ELSE LET id == CallIds[run.turns + 1]
              output == IF choice \in run.stubs
                        THEN client_tool_handler(choice, id, arguments)
                        ELSE <<"4">>
              events ==
                <<RawEvent("RawResponsesStreamEvent", ABSENT, "ResponseCreatedEvent",
                           ABSENT, ABSENT, <<>>),
                  ToolCalled(id, choice, arguments),
                  RawEvent("RunItemStreamEvent", "tool_output", ABSENT,
                           id, ABSENT, output)>>
              new_items == run.new_items
                             \o <<FunctionCallItem(id, choice),
                                  FunctionCallOutputItem(id, output)>>
          IN /\ stream' = stream \o Yielded(events)
             /\ raw' = raw \o events
             /\ IF choice \in run.stop_at
                THEN \* StopAtTools: the tool's output ends the run
                     /\ run' = [run EXCEPT !.turns = @ + 1, !.new_items = new_items,
                                           !.halted = TRUE]
                     /\ phase' = "done"
                     /\ SaveResult(new_items, fail)
                ELSE /\ fail = "none"
                     /\ run' = [run EXCEPT !.turns = @ + 1, !.new_items = new_items]
                     /\ phase' = "running"
                     /\ UNCHANGED storeVars

\* ------------------------------------------------------------------ inputs
CallX == "call_x"
CallY == "call_y"
PlayMusic == "mobile:play_music"

\* The argument texts the model writes in a tool call: an empty object, an
\* object with one key, and a text cut off before its closing brace.
ArgumentPool == {EmptyObject, <<"{", "song", "}">>, <<"{", "song">>}

\* The items callers hand to add_items.
ItemPool ==
  { UserItem(StrContent(<<"hi">>)),
    UserItem(StrContent(<<>>)),
    UserItem(StrContent(<<WS, WS>>)),
    UserItem(ListContent(<<Part("text", <<WS>>), Part("text", <<>>)>>)),
    UserItem(ListContent(<<Part("text", <<WS>>), Part("text", <<"hi">>)>>)),
    UserItem(NoContent),
    UserItem(NullContent),
    ToolItem(CallX, client_tool_handler(PlayMusic, CallX, EmptyObject)) }

\* The lists given to add_items: the empty list, every list of one item, and
\* lists of two that mix stored and filtered items.
Batches ==
  LET hi == UserItem(StrContent(<<"hi">>))
      blank == UserItem(StrContent(<<WS, WS>>))
      pending == ToolItem(CallX, client_tool_handler(PlayMusic, CallX, EmptyObject))
  IN {<<>>} \cup {<<a>> : a \in ItemPool}
     \cup {<<hi, pending>>, <<pending, hi>>, <<blank, hi>>, <<hi, blank>>,
           <<blank, blank>>}

\* The Client Tool Results a continuation request carries.
ResultX == ClientToolResult(CallX, PlayMusic, Some(<<"Playing now">>), None)
ResultZ == ClientToolResult("call_z", PlayMusic, Some(<<"late">>), None)
ResultPool ==
  { ResultX,
    ClientToolResult(CallX, PlayMusic, None, Some(<<"no device">>)),
    ClientToolResult(CallX, PlayMusic, Some(<<>>), None),
    ResultZ }

Init ==
  /\ messages = <<>>
  /\ updated_at = 0
  /\ clock = 1
  /\ coarse \in BOOLEAN
  /\ conversation \in BOOLEAN
  /\ initialized = FALSE
  /\ op = [name |-> "create", n_items |-> 0, limit |-> NoLimit, failed |-> "none",
           raised |-> FALSE, old_updated_at |-> 0, old_len |-> 0,
           old_items |-> <<>>, session_items |-> <<>>, updated_items |-> <<>>,
           tool_results |-> <<>>]
  /\ ret = <<>>
  /\ pure = TRUE
  /\ phase = "idle"
  /\ request = NoRequest
  /\ run = NoRun
  /\ stream = <<>>
  /\ nreq = 0
  /\ manager = ConversationContextManager(TRUE)
  /\ agent = Agent(AgentTools, {})
  /\ raised = "none"
  /\ raw = <<>>
  /\ response = NoResponse
  /\ title = NewChat
  /\ background = NoBackground
  /\ PoolIdle
  /\ SvcIdle

EnsureFails == {"none", "client", "load", "create"}

Next ==
  \/ \E limit \in {NoLimit} \cup (0..MaxRows), fail \in {"none", "select"},
        finit \in EnsureFails :
       get_items(limit, fail, finit)
  \/ \E items \in Batches, fail \in {"none", "insert", "update"}, finit \in EnsureFails :
       add_items(items, fail, finit)
  \/ \E fail \in {"none", "select", "delete", "update"}, finit \in EnsureFails :
       pop_item(fail, finit)
  \/ \E fail \in {"none", "delete", "update"}, finit \in EnsureFails :
       clear_session(fail, finit)
  \/ \E tool_results \in {<<ResultX>>},
        fget \in {"none", "select"}, fclear \in {"none", "delete", "update"},
        fadd \in {"none", "insert", "update"}, finit \in EnsureFails :
       continue_rewrite(tool_results, fget, fclear, fadd, finit)

Spec == Init /\ [][Next]_vars

\* ---------------------------------------------- the request model's inputs
PendingX == ToolItem(CallX, client_tool_handler(PlayMusic, CallX, EmptyObject))
PendingY == ToolItem(CallY, client_tool_handler(PlayMusic, CallY, EmptyObject))

\* The histories a session holds when the first request arrives.
Seeds ==
  { <<>>,
    <<UserItem(StrContent(<<"hi">>)), PendingX>>,
    <<UserItem(StrContent(<<"hi">>)), PendingY, PendingX>> }

\* a history as rows written one add_items call after the other
SeedRows(h) == [i \in 1..Len(h) |-> Row(h[i], i - Len(h))]

\* the client tools of the requests: one without a schema, and one whose
\* schema the conversion rejects
PlayMusicTool == ClientToolDefinition(PlayMusic, "none")
ScanCodeTool == ClientToolDefinition("mobile:scan_code", "loose")

\* The requests clients send: fresh messages with and without client tools or
\* an empty tool_results list, and continuations (whose message and client
\* tools are ignored).
Requests ==
  { MessageRequest(<<"hi">>, NoneList, NoneList, "triage_agent"),
    MessageRequest(<<"hi">>, SomeList(<<PlayMusicTool>>), NoneList, "triage_agent"),
    MessageRequest(<<"hi">>, SomeList(<<PlayMusicTool>>), SomeList(<<>>), "math_tutor"),
    MessageRequest(<<"hi">>, SomeList(<<PlayMusicTool>>), SomeList(<<ResultX>>),
                   "triage_agent"),
    MessageRequest(<<"hi">>, SomeList(<<ScanCodeTool, PlayMusicTool>>), NoneList,
                   "triage_agent"),
    MessageRequest(<<"hi">>, NoneList, NoneList, "sales_agent"),
    MessageRequest(<<"hi">>, NoneList, NoneList, "None") }
  \cup {MessageRequest(<<>>, NoneList, SomeList(<<r>>), "triage_agent") :
          r \in ResultPool \ {ResultX}}
  \cup {MessageRequest(<<>>, NoneList, SomeList(<<ResultZ, ResultX>>), "triage_agent")}

\* what the title agent answers: a quoted title, or blanks
TitleOutputs == {<<"\"", "Music", "\"">>, <<WS>>}

\* The storage failures a continuation meets in the request model: none, or
\* one of its calls raising.
RewriteFails ==
  { <<"none", "none", "none">>, <<"select", "none", "none">>,
    <<"none", "delete", "none">>, <<"none", "none", "insert">> }

\* The session when the first request arrives. The request model runs on a
\* host whose clock separates consecutive reads; the store model covers both
\* kinds of host.
LoopInit ==
  /\ messages \in {SeedRows(h) : h \in Seeds}
  /\ updated_at = 0
  /\ clock = 1
  /\ coarse = FALSE
  /\ conversation = (messages # <<>>)
  /\ initialized = FALSE
  /\ op = [name |-> "create", n_items |-> 0, limit |-> NoLimit, failed |-> "none",
           raised |-> FALSE, old_updated_at |-> 0, old_len |-> 0,
           old_items |-> <<>>, session_items |-> <<>>, updated_items |-> <<>>,
           tool_results |-> <<>>]
  /\ ret = <<>>
  /\ pure = TRUE
  /\ phase = "idle"
  /\ request = NoRequest
  /\ run = NoRun
  /\ stream = <<>>
  /\ nreq = 0
  /\ manager = ConversationContextManager(TRUE)
  /\ agent = Agent(AgentTools, {})
  /\ raised = "none"
  /\ raw = <<>>
  /\ response = NoResponse
  /\ title = NewChat
  /\ background = NoBackground
  /\ PoolIdle
  /\ SvcIdle

LoopNext ==
  \/ \E req \in Requests, finit \in {"none", "client", "create"} : send_message(req, finit)
  \/ call_continue(<<ResultX>>)
  \/ run_agent_stream
  \/ \E f \in RewriteFails : continue_after_client_tools(f[1], f[2], f[3])
  \/ \E choice \in {"message", "calculator", PlayMusic, APIError},
        arguments \in ArgumentPool,
        fail \in {"none", "insert"} :
       engine_turn(choice, arguments, fail)
  \/ \E fail \in {"none", "lookup", "run", "update"}, final_output \in TitleOutputs :
       title_task(fail, final_output)

LoopSpec == LoopInit /\ [][LoopNext]_vars

\* ------------------------------------------- the store with other sessions
\* an item added under another key
Secret == UserItem(StrContent(<<"secret">>))

\* Rows of two other keys: one with this session's session_id and another
\* user_id, one with this user's user_id and another session_id.
ForeignRows ==
  << [session_id |-> SessionId, user_id |-> "u2",
      message_data |-> json_dumps(Secret), created_at |-> 2],
     [session_id |-> "s2", user_id |-> UserId,
      message_data |-> json_dumps(Secret), created_at |-> 1] >>

\* A new session object, for a conversation that exists or not, on a messages
\* table that holds rows of other keys.
IsoInit ==
  /\ messages = ForeignRows
  /\ updated_at = 0
  /\ clock = 1
  /\ coarse \in BOOLEAN
  /\ conversation \in BOOLEAN
  /\ initialized = FALSE
  /\ op = [name |-> "create", n_items |-> 0, limit |-> NoLimit, failed |-> "none",
           raised |-> FALSE, old_updated_at |-> 0, old_len |-> 0,
           old_items |-> <<>>, session_items |-> <<>>, updated_items |-> <<>>,
           tool_results |-> <<>>]
  /\ ret = <<>>
  /\ pure = TRUE
  /\ phase = "idle"
  /\ request = NoRequest
  /\ run = NoRun
  /\ stream = <<>>
  /\ nreq = 0
  /\ manager = ConversationContextManager(TRUE)
  /\ agent = Agent(AgentTools, {})
  /\ raised = "none"
  /\ raw = <<>>
  /\ response = NoResponse
  /\ title = NewChat
  /\ background = NoBackground
  /\ PoolIdle
  /\ SvcIdle

IsoSpec == IsoInit /\ [][Next]_vars

\* ------------------------------ session objects initialized concurrently
\* Session objects for one (session_id, user_id), url and key run
\* _ensure_initialized in one event loop; a step is the code between two
\* awaits. Clients are numbered in the order acreate_client returns them.

\* _get_or_create_client up to its await (lines 50-54): the test on the pool
pool_lookup(p) ==
  /\ sessions[p].pc = "start"
  /\ sessions' = [sessions EXCEPT ![p] =
                    IF connection_pool.client = 0 THEN [pc |-> "acreate", supabase |-> 0]
                    ELSE [pc |-> "load", supabase |-> connection_pool.client]]
  /\ UNCHANGED <<connection_pool, conversations>>
  /\ UNCHANGED <<storeVars, loopVars, svcVars>>

\* acreate_client returns (or raises): the entry is written and the value
\* stored is returned (lines 54-58)
acreate_client(p, fail) ==
  /\ sessions[p].pc = "acreate"
  /\ IF fail
     THEN /\ sessions' = [sessions EXCEPT ![p].pc = "raised"]
          /\ UNCHANGED connection_pool
     ELSE LET client == connection_pool.created + 1
          IN /\ connection_pool' = [client |-> client, created |-> client,
                                    writes |-> connection_pool.writes + 1]
             /\ sessions' = [sessions EXCEPT ![p] = [pc |-> "load", supabase |-> client]]
  /\ UNCHANGED conversations
  /\ UNCHANGED <<storeVars, loopVars, svcVars>>

\* _load_session (lines 111-131): the select returns, or raises and False is
\* returned
load_session(p, fail) ==
  /\ sessions[p].pc = "load"
  /\ sessions' = [sessions EXCEPT ![p].pc =
                    IF ~fail /\ conversations.rows > 0 THEN "done" ELSE "create"]
  /\ UNCHANGED <<connection_pool, conversations>>
  /\ UNCHANGED <<storeVars, loopVars, svcVars>>

\* _create_session (lines 133-153): the insert is executed, or raises and is
\* logged. The schema is not part of the code: a table with a uniqueness
\* constraint rejects the insert of a second row (dup = "rejected"), one
\* without accepts it.
create_session(p, fail, dup) ==
  /\ sessions[p].pc = "create"
  /\ sessions' = [sessions EXCEPT ![p].pc = "done"]
  /\ conversations' =
       IF fail \/ (conversations.rows > 0 /\ dup = "rejected") THEN conversations
       ELSE [conversations EXCEPT !.rows = @ + 1, !.inserted = @ + 1]
  /\ UNCHANGED connection_pool
  /\ UNCHANGED <<storeVars, loopVars, svcVars>>

\* Session objects just constructed, for a pair whose conversation row exists
\* or not, in a process whose pool is empty.
EnsureInit ==
  /\ messages = <<>>
  /\ updated_at = 0
  /\ clock = 1
  /\ coarse = FALSE
  /\ conversation = FALSE
  /\ initialized = FALSE
  /\ op = [name |-> "create", n_items |-> 0, limit |-> NoLimit, failed |-> "none",
           raised |-> FALSE, old_updated_at |-> 0, old_len |-> 0,
           old_items |-> <<>>, session_items |-> <<>>, updated_items |-> <<>>,
           tool_results |-> <<>>]
  /\ ret = <<>>
  /\ pure = TRUE
  /\ phase = "idle"
  /\ request = NoRequest
  /\ run = NoRun
  /\ stream = <<>>
  /\ nreq = 0
  /\ manager = ConversationContextManager(TRUE)
  /\ agent = Agent(AgentTools, {})
  /\ raised = "none"
  /\ raw = <<>>
  /\ response = NoResponse
  /\ title = NewChat
  /\ background = NoBackground
  /\ connection_pool = [client |-> 0, created |-> 0, writes |-> 0]
  /\ sessions = [p \in 1..MaxSessions |-> [pc |-> "start", supabase |-> 0]]
  /\ \E existed \in BOOLEAN :
       conversations = [rows |-> IF existed THEN 1 ELSE 0, inserted |-> 0,
                        existed |-> existed]
  /\ SvcIdle

EnsureNext ==
  \/ \E p \in 1..MaxSessions : pool_lookup(p)
  \/ \E p \in 1..MaxSessions, fail \in BOOLEAN : acreate_client(p, fail)
  \/ \E p \in 1..MaxSessions, fail \in BOOLEAN : load_session(p, fail)
  \/ \E p \in 1..MaxSessions, fail \in BOOLEAN, dup \in {"accepted", "rejected"} :
       create_session(p, fail, dup)

EnsureSpec == EnsureInit /\ [][EnsureNext]_vars

\* ------------------------------------- agents created at the same time
\* Calls of get_agent_by_key run in one event loop; a step is the code between
\* two points where a coroutine is suspended. Connections are numbered in the
\* order the server factory is invoked.

\* AGENT_FACTORIES, each factory by the name of the Agent it returns
AGENT_FACTORIES ==
  [k \in {"chat_title_renamer", "history_tutor", "math_tutor", "triage_agent"} |->
     CASE k = "chat_title_renamer" -> <<"Chat title renamer">>
       [] k = "history_tutor" -> <<"History Tutor">>
       [] k = "math_tutor" -> <<"Math Tutor">>
       [] k = "triage_agent" -> <<"Triage Agent">>]

\* the text of the ValueError of get_agent_by_key
AgentNotFound(agent_key) ==
  <<"Agent", agent_key, "not found.", "Available agents:">>

\* get_agent_by_key up to the first suspension: the test on AGENT_FACTORIES,
\* then the factory, whose create_model_by_key raises without OPENROUTER_KEY;
\* only _create_triage_agent goes on to get_mcp_servers
get_agent_by_key(p, agent_key, fail) ==
  /\ callers[p].pc = "idle"
  /\ callers' = [callers EXCEPT ![p] =
       IF agent_key \notin DOMAIN AGENT_FACTORIES
       THEN Caller("raised", agent_key, <<>>, AgentNotFound(agent_key), 0, FALSE)
       ELSE IF fail
       THEN Caller("raised", agent_key, <<>>,
                   <<"OPENROUTER_KEY environment variable is required">>, 0, FALSE)
       ELSE IF agent_key # "triage_agent"
       THEN Caller("returned", agent_key, AGENT_FACTORIES[agent_key], <<>>, 0, TRUE)
       ELSE Caller("get_instance", agent_key, <<>>, <<>>, 0, TRUE)]
  /\ UNCHANGED mcp
  /\ UNCHANGED <<storeVars, loopVars, poolVars, chats, svc, authVars>>

\* MCPManager.get_instance: nothing in it suspends (the lock is free when it is
\* taken and _initialize awaits nothing), so it is one step
get_instance(p) ==
  /\ callers[p].pc = "get_instance"
  /\ mcp' = IF mcp.instance = 0
            THEN [mcp EXCEPT !.instances = @ + 1, !.instance = mcp.instances + 1]
            ELSE mcp
  /\ callers' = [callers EXCEPT ![p].pc = "get_servers"]
  /\ UNCHANGED <<storeVars, loopVars, poolVars, chats, svc, authVars>>

\* get_servers(["time"]) up to the await of the server factory: both tests on
\* _servers (lines 101 and 77), then the factory is invoked, or the stored
\* server is wrapped and the Agent returned
get_servers(p) ==
  /\ callers[p].pc = "get_servers"
  /\ IF mcp.servers # 0
     THEN /\ callers' = [callers EXCEPT ![p] =
               Caller("returned", @.key, AGENT_FACTORIES[@.key], <<>>, mcp.servers, TRUE)]
          /\ UNCHANGED mcp
     ELSE /\ mcp' = [mcp EXCEPT !.opened = @ + 1]
          /\ callers' = [callers EXCEPT ![p].pc = "connecting",
                                          ![p].proxy = mcp.opened + 1]
  /\ UNCHANGED <<storeVars, loopVars, poolVars, chats, svc, authVars>>

\* the factory returns and _connect_server stores the server (lines 86-89),
\* get_servers wraps what is stored (line 104); or the factory raises
connect_server(p, fail) ==
  /\ callers[p].pc = "connecting"
  /\ IF fail
     THEN /\ callers' = [callers EXCEPT ![p] =
               Caller("raised", @.key, <<>>, <<"connect failed">>, 0, TRUE)]
          /\ UNCHANGED mcp
     ELSE /\ mcp' = [mcp EXCEPT !.servers = callers[p].proxy]
          /\ callers' = [callers EXCEPT ![p] =
               Caller("returned", @.key, AGENT_FACTORIES[@.key], <<>>,
                      callers[p].proxy, TRUE)]
  /\ UNCHANGED <<storeVars, loopVars, poolVars, chats, svc, authVars>>

AgentKeys == AgentKey \cup {"invalid_agent"}

\* A process in which nothing has called MCPManager yet, and callers about to
\* ask for an agent.
AgentInit ==
  /\ messages = <<>>
  /\ updated_at = 0
  /\ clock = 1
  /\ coarse = FALSE
  /\ conversation = FALSE
  /\ initialized = FALSE
  /\ op = [name |-> "create", n_items |-> 0, limit |-> NoLimit, failed |-> "none",
           raised |-> FALSE, old_updated_at |-> 0, old_len |-> 0,
           old_items |-> <<>>, session_items |-> <<>>, updated_items |-> <<>>,
           tool_results |-> <<>>]
  /\ ret = <<>>
  /\ pure = TRUE
  /\ phase = "idle"
  /\ request = NoRequest
  /\ run = NoRun
  /\ stream = <<>>
  /\ nreq = 0
  /\ manager = ConversationContextManager(TRUE)
  /\ agent = Agent(AgentTools, {})
  /\ raised = "none"
  /\ raw = <<>>
  /\ response = NoResponse
  /\ title = NewChat
  /\ background = NoBackground
  /\ PoolIdle
  /\ mcp = [instances |-> 0, instance |-> 0, servers |-> 0, opened |-> 0]
  /\ callers = [p \in 1..MaxSessions |-> Caller("idle", "triage_agent", <<>>, <<>>, 0, FALSE)]
  /\ chats = <<>>
  /\ svc = NoSvc
  /\ AuthIdle
  /\ RaceIdle

AgentNext ==
  \/ \E p \in 1..MaxSessions, agent_key \in AgentKeys, fail \in BOOLEAN :
       get_agent_by_key(p, agent_key, fail)
  \/ \E p \in 1..MaxSessions : get_instance(p)
  \/ \E p \in 1..MaxSessions : get_servers(p)
  \/ \E p \in 1..MaxSessions, fail \in BOOLEAN : connect_server(p, fail)

AgentSpec == AgentInit /\ [][AgentNext]_vars

\* --------------------------------------------------------- ChatService
\* The conversations and messages tables as ChatService sees them; a message
\* is known by its position in the table (its id).
MaxMessages == 3  \* messages of the conversation that is paged

ChatRow(session_id, user_id, chat_title, is_archived, is_starred) ==
  [session_id |-> session_id, user_id |-> user_id, title |-> chat_title,
   is_archived |-> is_archived, is_starred |-> is_starred]

\* .eq("session_id", session_id) alone
Owned_any_user(t, session_id, user_id) ==
  {i \in 1..Len(t) : t[i].session_id = session_id}

\* .eq("session_id", session_id).eq("user_id", user_id): the rows of table t
\* the filter selects
Owned(t, session_id, user_id) ==
  {i \in 1..Len(t) : t[i].session_id = session_id /\ t[i].user_id = user_id}

\* the table without the rows at positions S
Without(t, S) ==
  LET F[i \in 0..Len(t)] ==
        IF i = 0 THEN <<>>
        ELSE IF i \in S THEN F[i - 1] ELSE Append(F[i - 1], t[i])
  IN F[Len(t)]

\* "if not conversation_result.data: raise ValueError(...)"
NotFound(session_id, user_id) == Owned(chats, session_id, user_id) = {}

ChatRaises(name, session_id, user_id) ==
  /\ svc' = Svc(name, session_id, user_id, TRUE, chats, messages)
  /\ UNCHANGED <<chats, messages>>

\* delete_conversation: the delete of the conversation row; the messages go
\* with it where the schema cascades (the schema is not part of the code)
delete_conversation(session_id, user_id, cascade) ==
  /\ IF NotFound(session_id, user_id)
     THEN ChatRaises("delete_conversation", session_id, user_id) /\ cascade
     ELSE /\ chats' = Without(chats, Owned(chats, session_id, user_id))
          /\ messages' = IF cascade
                          THEN Without(messages, Owned(messages, session_id, user_id))
                          ELSE messages
          /\ svc' = Svc("delete_conversation", session_id, user_id, FALSE, chats, messages)
  /\ UNCHANGED <<updated_at, clock, coarse, conversation, initialized, op, ret, pure>>
  /\ UNCHANGED <<loopVars, poolVars, mcp, callers, authVars>>

\* .update(fields) on the rows the filter selects
UpdateOwned(session_id, user_id, field, value) ==
  [i \in 1..Len(chats) |->
     IF i \in Owned(chats, session_id, user_id)
     THEN [chats[i] EXCEPT ![field] = value] ELSE chats[i]]

archive_conversation(session_id, user_id) ==
  /\ IF NotFound(session_id, user_id)
     THEN ChatRaises("archive_conversation", session_id, user_id)
     ELSE /\ chats' = UpdateOwned(session_id, user_id, "is_archived", TRUE)
          /\ svc' = Svc("archive_conversation", session_id, user_id, FALSE, chats, messages)
          /\ UNCHANGED messages
  /\ UNCHANGED <<updated_at, clock, coarse, conversation, initialized, op, ret, pure>>
  /\ UNCHANGED <<loopVars, poolVars, mcp, callers, authVars>>

star_conversation(session_id, user_id) ==
  /\ IF NotFound(session_id, user_id)
     THEN ChatRaises("star_conversation", session_id, user_id)
     ELSE /\ chats' = UpdateOwned(session_id, user_id, "is_starred", TRUE)
          /\ svc' = Svc("star_conversation", session_id, user_id, FALSE, chats, messages)
          /\ UNCHANGED messages
  /\ UNCHANGED <<updated_at, clock, coarse, conversation, initialized, op, ret, pure>>
  /\ UNCHANGED <<loopVars, poolVars, mcp, callers, authVars>>

update_conversation_title(session_id, user_id, new_title) ==
  /\ IF NotFound(session_id, user_id)
     THEN ChatRaises("update_conversation_title", session_id, user_id)
     ELSE /\ chats' = UpdateOwned(session_id, user_id, "title", new_title)
          /\ svc' = Svc("update_conversation_title", session_id, user_id, FALSE,
                        chats, messages)
          /\ UNCHANGED messages
  /\ UNCHANGED <<updated_at, clock, coarse, conversation, initialized, op, ret, pure>>
  /\ UNCHANGED <<loopVars, poolVars, mcp, callers, authVars>>

\* .offset(n)
Offset(p, n) == SubSeq(p, n + 1, Len(p))

\* has_more = (offset + limit) < total_messages
has_more(limit, offset, total_messages) == (offset + limit) < total_messages

\* get_conversation(limit, offset): the count, then the page of messages
\* ordered by created_at descending, reversed. A call at the offset where the
\* last one ended, with the same arguments otherwise, continues the walk.
get_conversation(session_id, user_id, limit, offset) ==
  /\ IF NotFound(session_id, user_id)
     THEN ChatRaises("get_conversation", session_id, user_id)
     ELSE \E p \in Orders(messages, Owned(messages, session_id, user_id), TRUE) :
            LET total_messages == Cardinality(Owned(messages, session_id, user_id))
                page == reversed(Limit(Offset(p, offset), limit))
                walk == /\ svc.name = "get_conversation" /\ ~svc.raised
                        /\ svc.session_id = session_id /\ svc.user_id = user_id
                        /\ svc.limit = limit /\ svc.next = offset
                        /\ offset > 0
            IN /\ svc' = [Svc("get_conversation", session_id, user_id, FALSE,
                              chats, messages)
                          EXCEPT !.limit = limit, !.offset = offset, !.page = page,
                                 !.total = total_messages,
                                 !.has_more = has_more(limit, offset, total_messages),
                                 !.seen = IF walk THEN page \o svc.seen
                                          ELSE IF offset = 0 THEN page ELSE <<>>,
                                 !.next = IF walk \/ offset = 0 THEN offset + limit
                                          ELSE 0]
               /\ UNCHANGED <<chats, messages>>
  /\ UNCHANGED <<updated_at, clock, coarse, conversation, initialized, op, ret, pure>>
  /\ UNCHANGED <<loopVars, poolVars, mcp, callers, authVars>>

Users == {"u1", "u2"}
SessionIds == {"s1", "s2", "s3"}

\* conversations of two users; in the second table both own a conversation
\* with the same session_id
ChatSeeds ==
  { << ChatRow("s1", "u1", NewChat, FALSE, FALSE), ChatRow("s2", "u2", NewChat, FALSE, FALSE) >>,
    << ChatRow("s1", "u1", NewChat, FALSE, FALSE), ChatRow("s1", "u2", NewChat, FALSE, FALSE) >> }

\* everything but the tables, for a process that serves ChatService calls
ChatIdle ==
  /\ updated_at = 0
  /\ clock = 1
  /\ conversation = TRUE
  /\ initialized = FALSE
  /\ op = [name |-> "create", n_items |-> 0, limit |-> NoLimit, failed |-> "none",
           raised |-> FALSE, old_updated_at |-> 0, old_len |-> 0,
           old_items |-> <<>>, session_items |-> <<>>, updated_items |-> <<>>,
           tool_results |-> <<>>]
  /\ ret = <<>>
  /\ pure = TRUE
  /\ phase = "idle"
  /\ request = NoRequest
  /\ run = NoRun
  /\ stream = <<>>
  /\ nreq = 0
  /\ manager = ConversationContextManager(TRUE)
  /\ agent = Agent(AgentTools, {})
  /\ raised = "none"
  /\ raw = <<>>
  /\ response = NoResponse
  /\ title = NewChat
  /\ background = NoBackground
  /\ PoolIdle
  /\ mcp = McpStarted
  /\ callers = [p \in 1..MaxSessions |-> NoCaller]
  /\ svc = NoSvc

\* Tables left by earlier requests: the conversations of two users, a message
\* of (s1, u1) and one of another user under the same session_id.
ChatInit ==
  /\ coarse = FALSE
  /\ messages = <<ForeignRows[1], Row(UserItem(StrContent(<<"hi">>)), 1)>>
  /\ chats \in ChatSeeds
  /\ ChatIdle
  /\ AuthIdle
  /\ RaceIdle

ChatNext ==
  \/ \E s \in SessionIds, u \in Users, cascade \in BOOLEAN : delete_conversation(s, u, cascade)
  \/ \E s \in SessionIds, u \in Users : archive_conversation(s, u)
  \/ \E s \in SessionIds, u \in Users : star_conversation(s, u)
  \/ \E s \in SessionIds, u \in Users : update_conversation_title(s, u, <<"Music">>)
  \/ \E s \in SessionIds, u \in Users : get_conversation(s, u, 10, 0)

ChatSpec == ChatInit /\ [][ChatNext]_vars

\* Tables left by earlier requests: a message of another user under the same
\* session_id, and up to MaxMessages messages of (s1, u1) stamped as add_items
\* stamps them.
PageInit ==
  /\ coarse \in BOOLEAN
  /\ \E n \in 0..MaxMessages : \E ts \in Stamps(n, 1) :
       messages = <<ForeignRows[1]>> \o
                  [i \in 1..n |-> Row(UserItem(StrContent(<<"hi">>)), ts[i])]
  /\ chats \in ChatSeeds
  /\ ChatIdle
  /\ AuthIdle
  /\ RaceIdle

PageNext ==
  \E s \in SessionIds, u \in Users, limit \in 1..2, offset \in 0..MaxMessages :
    get_conversation(s, u, limit, offset)

PageSpec == PageInit /\ [][PageNext]_vars

\* ------------------------------------------------------ the token cache
\* Time is the store's clock, in ticks of half a second; the exp claim of a
\* token is in whole seconds, as jwt.encode writes a datetime. A token is
\* known by its payload: the signature of an issued token always verifies.
MaxTime == 6          \* the clock stops the token model at this tick
MaxTokens == 2        \* tokens issued
CacheLimit == 1       \* the cache size above which expired entries are removed
TicksPerSecond == 2
DefaultExpire == 2    \* access_token_expire_minutes, in ticks

NoUser == "None"

\* create_access_token(data, expires_delta): a zero expires_delta is falsy
\* and the configured lifetime is used; jwt.encode keeps the whole seconds of
\* the expiry
create_access_token(sub, expires_delta, t) ==
  LET expire == t + (IF expires_delta # 0 THEN expires_delta ELSE DefaultExpire)
  IN [sub |-> sub, exp |-> expire \div TicksPerSecond]

\* jwt.decode at tick t raises ExpiredSignatureError when exp <= now
decode_raises(token, t) == token.exp * TicksPerSecond <= t

\* verify_token(token) at tick t
verify_token(token, t) ==
  IF decode_raises(token, t) THEN NoUser
  ELSE IF token.sub = ABSENT THEN NoUser      \* if user_id is None
  ELSE token.sub

\* a cached entry taken without looking at its expiry
cache_fresh_always(entry, t) == TRUE

\* "if current_time < exp_timestamp"
cache_fresh(entry, t) == t < entry.exp * TicksPerSecond

\* _cached_verify_token(token) at tick t on cache c: the value returned, the
\* cache left, and whether the cache answered
cached_verify_token_result(c, token, t) ==
  LET hit == token \in DOMAIN c /\ cache_fresh(c[token], t)
      c1 == IF token \in DOMAIN c /\ ~hit
            THEN [k \in DOMAIN c \ {token} |-> c[k]] ELSE c
      user_id == token.sub
      ok == ~decode_raises(token, t)
              /\ user_id # ABSENT /\ user_id # ""      \* if user_id and ...
              /\ token.exp * TicksPerSecond > t        \* ... exp > current_time
      c2 == [k \in DOMAIN c1 \cup {token} |->
               IF k = token THEN [user_id |-> user_id, exp |-> token.exp] ELSE c1[k]]
      c3 == IF Cardinality(DOMAIN c2) > CacheLimit
            THEN [k \in {k \in DOMAIN c2 : c2[k].exp * TicksPerSecond > t} |-> c2[k]]
            ELSE c2
  IN IF hit THEN [user_id |-> c[token].user_id, cache |-> c, hit |-> TRUE]
     ELSE IF ok THEN [user_id |-> user_id, cache |-> c3, hit |-> FALSE]
     ELSE [user_id |-> NoUser, cache |-> c1, hit |-> FALSE]

Auth(token, t, cached, direct, hit, evicted) ==
  [token |-> token, at |-> t, cached |-> cached, direct |-> direct, hit |-> hit,
   evicted |-> evicted]

\* the router issues a token
issue_token(sub, expires_delta) ==
  /\ Cardinality(issued) < MaxTokens
  /\ issued' = issued \cup {create_access_token(sub, expires_delta, clock)}
  /\ UNCHANGED <<token_cache, auth, race>>
  /\ UNCHANGED <<storeVars, loopVars, poolVars, mcp, callers, chats, svc>>

\* time passes
tick ==
  /\ clock < MaxTime
  /\ clock' = clock + 1
  /\ UNCHANGED <<issued, token_cache, auth, race>>
  /\ UNCHANGED <<messages, updated_at, coarse, conversation, initialized, op, ret, pure>>
  /\ UNCHANGED <<loopVars, poolVars, mcp, callers, chats, svc>>

\* a request presents an issued token: _cached_verify_token, and what
\* verify_token returns for the same token at the same time
cached_verify_token(token) ==
  /\ token \in issued
  /\ LET r == cached_verify_token_result(token_cache, token, clock)
     IN /\ token_cache' = r.cache
        /\ auth' = Auth(token, clock, r.user_id, verify_token(token, clock), r.hit,
                        token \in DOMAIN token_cache /\ token \notin DOMAIN r.cache)
  /\ UNCHANGED <<issued, race>>
  /\ UNCHANGED <<storeVars, loopVars, poolVars, mcp, callers, chats, svc>>

\* the sub claims of the tokens: a user id, none, and an empty one
Subs == {"u1", "u2", ABSENT, ""}

TokenInit ==
  /\ coarse = FALSE
  /\ messages = <<>>
  /\ chats = <<>>
  /\ ChatIdle
  /\ AuthIdle
  /\ RaceIdle

TokenNext ==
  \/ \E sub \in Subs, expires_delta \in 0..3 : issue_token(sub, expires_delta)
  \/ tick
  \/ \E token \in issued : cached_verify_token(token)

TokenSpec == TokenInit /\ [][TokenNext]_vars

\* ------------------------------- a continuation and another request at once
\* The rewrite of continue_after_client_tools is three awaited calls; another
\* request on the same session runs between them and appends the items of its
\* turn with add_items.

\* the items the other request appends, in the order it produces them
OtherItems == <<UserItem(StrContent(<<"more">>)), AssistantItem(<<"sure">>)>>

Race(pc, tool_results, session_items, updated_items, appended) ==
  [pc |-> pc, tool_results |-> tool_results, session_items |-> session_items,
   updated_items |-> updated_items, appended |-> appended]

\* the session after a storage call left store st
SetRows(st) ==
  /\ messages' = st.messages
  /\ updated_at' = st.updated_at
  /\ clock' = st.clock
  /\ UNCHANGED <<coarse, conversation, initialized, op, ret, pure>>

\* session_items = await session.get_items(), and the loop that builds
\* updated_items (lines 76-111)
rewrite_get_items ==
  /\ race.pc = "get_items"
  /\ \E session_items \in get_items_result(Now, NoLimit, "none") :
       race' = [race EXCEPT !.pc = "clear_session",
                            !.session_items = session_items,
                            !.updated_items = UpdatedItems(session_items, race.tool_results)]
  /\ UNCHANGED <<storeVars, loopVars, poolVars, mcp, callers, chats, svc, issued,
               token_cache, auth>>

\* await session.clear_session() (line 114)
rewrite_clear_session ==
  /\ race.pc = "clear_session"
  /\ SetRows(clear_session_result(Now, "none"))
  /\ race' = [race EXCEPT !.pc = "add_items"]
  /\ UNCHANGED <<loopVars, poolVars, mcp, callers, chats, svc, issued, token_cache, auth>>

\* await session.add_items(updated_items) (line 115)
rewrite_add_items ==
  /\ race.pc = "add_items"
  /\ \E st \in add_items_result(Now, race.updated_items, "none") : SetRows(st)
  /\ race' = [race EXCEPT !.pc = "done"]
  /\ UNCHANGED <<loopVars, poolVars, mcp, callers, chats, svc, issued, token_cache, auth>>

\* the other request appends its next n items
other_add_items(n) ==
  /\ Len(race.appended) + n <= Len(OtherItems)
  /\ LET items == SubSeq(OtherItems, Len(race.appended) + 1, Len(race.appended) + n)
     IN /\ \E st \in add_items_result(Now, items, "none") : SetRows(st)
        /\ race' = [race EXCEPT !.appended = @ \o items]
  /\ UNCHANGED <<loopVars, poolVars, mcp, callers, chats, svc, issued, token_cache, auth>>

\* A session with pending calls when a continuation and another request
\* arrive.
RaceInit ==
  /\ messages \in {SeedRows(h) : h \in Seeds \ {<<>>}}
  /\ coarse = FALSE
  /\ chats = <<>>
  /\ ChatIdle
  /\ AuthIdle
  /\ \E tool_results \in {<<ResultX>>, <<ResultZ, ResultX>>, <<ResultZ>>} :
       race = Race("get_items", tool_results, <<>>, <<>>, <<>>)

RaceNext ==
  \/ rewrite_get_items
  \/ rewrite_clear_session
  \/ rewrite_add_items
  \/ \E n \in 1..2 : other_add_items(n)

RaceSpec == RaceInit /\ [][RaceNext]_vars

\* ------------------------------------------- the normalizer on any event
MaxEvents == 2    \* raw events the normalizer model feeds to one generator

\* Raw events of every shape process_event tests for: the custom control
\* dicts, a dict of another type, the engine's event classes with names and
\* payload types inside and outside the lookup tables, a tool call whose item
\* has no call_id, and an object of another class.
RawEvents ==
  {RawEvent("dict", n, ABSENT, ABSENT, ABSENT, <<>>) :
     n \in {"client_tool_call", "execution_paused", "client_tool_execution_required",
            "done", "heartbeat"}}
  \cup {RawEvent("AgentUpdatedStreamEvent", ABSENT, ABSENT, ABSENT, ABSENT, <<>>)}
  \cup {RawEvent("RunItemStreamEvent", n, ABSENT, ABSENT, ABSENT, <<>>) :
          n \in {"message_output_created", "handoff_requested", "handoff_occured",
                 "reasoning_item_created", "mcp_approval_requested", "mcp_list_tools"}}
  \cup {ToolCalled(CallX, PlayMusic, a) : a \in ArgumentPool}
  \cup {ToolCalled(MISSING, "web_search", EmptyObject),
        RawEvent("RunItemStreamEvent", "tool_output", ABSENT, CallX, ABSENT, <<"4">>)}
  \cup {RawEvent("RawResponsesStreamEvent", ABSENT, d, ABSENT, ABSENT, <<>>) :
          d \in DOMAIN response_data_handlers \cup {"ResponseInProgressEvent"}}
  \cup {RawEvent("object", ABSENT, ABSENT, ABSENT, ABSENT, <<>>)}

\* A generator about to consume the events of its run.
NormInit ==
  /\ messages = <<>>
  /\ updated_at = 0
  /\ clock = 1
  /\ coarse = FALSE
  /\ conversation = FALSE
  /\ initialized = FALSE
  /\ op = [name |-> "create", n_items |-> 0, limit |-> NoLimit, failed |-> "none",
           raised |-> FALSE, old_updated_at |-> 0, old_len |-> 0,
           old_items |-> <<>>, session_items |-> <<>>, updated_items |-> <<>>,
           tool_results |-> <<>>]
  /\ ret = <<>>
  /\ pure = TRUE
  /\ phase = "running"
  /\ request = NoRequest
  /\ run = NoRun
  /\ stream = <<>>
  /\ nreq = 0
  /\ manager = ConversationContextManager(TRUE)
  /\ agent = Agent(AgentTools, {})
  /\ raised = "none"
  /\ raw = <<>>
  /\ response = NoResponse
  /\ title = NewChat
  /\ background = NoBackground
  /\ PoolIdle
  /\ SvcIdle

\* One iteration of the generator's loop on raw event event: it is consumed,
\* normalized and, unless the result is None, yielded; an exception of
\* process_event ends the generator.
consume(event) ==
  /\ UNCHANGED <<poolVars, svcVars>>
  /\ phase = "running"
  /\ Len(raw) < MaxEvents
  /\ raw' = Append(raw, event)
  /\ stream' = loop_body(stream, event)
  /\ raised' = IF process_event_raises(event) THEN "AttributeError" ELSE raised
  /\ phase' = IF process_event_raises(event) THEN "failed" ELSE phase
  /\ UNCHANGED <<request, run, nreq, manager, agent, response, title, background>>
  /\ UNCHANGED storeVars

NormNext == \E event \in RawEvents : consume(event)

NormSpec == NormInit /\ [][NormNext]_vars

\* ------------------------------------------------- claims: session store
SessionItems == Stored(messages)
NSession == Len(SessionItems)
LastK(s, k) == SubSeq(s, Len(s) - k + 1, Len(s))
Written == SubSeq(messages, op.old_len + 1, Len(messages))

\* C6: after add_items calls only (no pop_item, no clear_session), get_items()
\* with no limit returns the stored items in the order they were added:
\* batches in call order and, inside a batch, in list order.
C6_AppendOrder ==
  (op.name = "get_items" /\ op.limit = NoLimit /\ op.failed = "none" /\ pure)
    => ret = SessionItems

\* C7: for a session of N items and 0 < k < N, get_items(limit=k) returns the
\* last k items of what get_items() returns, in the same order.
C7_LastK ==
  (op.name = "get_items" /\ op.failed = "none"
     /\ 0 < op.limit /\ op.limit < NSession)
    => \A full \in get_items_result(Now, NoLimit, "none") : ret = LastK(full, op.limit)

\* A string of whitespace only (the empty string included).
AllSpace(s) == \A i \in 1..Len(s) : s[i] = WS
\* A user item with no text: no content, a blank string, or a list whose
\* text parts are all blank.
BlankUserTurn(item) ==
  /\ item.role = "user"
  /\ \/ item.content.kind = "absent"
     \/ item.content.kind = "str" /\ AllSpace(item.content.str)
     \/ item.content.kind = "list"
        /\ \A i \in 1..Len(item.content.parts) :
             item.content.parts[i].type = "text" => AllSpace(item.content.parts[i].text)
NoBlankUserStored == \A i \in 1..NSession : ~BlankUserTurn(SessionItems[i])

\* C8: no stored item is a blank user turn, and an add_items whose insert does
\* not fail stores every other item of its batch, in list order.
C8_NoEmptyUserTurn ==
  /\ []NoBlankUserStored
  /\ [][(op'.name = "add_items" /\ op'.failed # "insert" /\ ~op'.raised)
          => \A items \in Batches, finit \in EnsureFails :
               add_items(items, op'.failed, finit)
                 => Stored(Written') = SelectSeq(items, LAMBDA it : ~BlankUserTurn(it))]_vars
C8_Witness ==
  /\ op.name = "add_items" /\ op.failed = "none"
  /\ op.n_items = 2 /\ Len(messages) = op.old_len + 1

ResultsFor(X, tool_results) == SelectSeq(tool_results, LAMBDA r : r.tool_call_id = X)
\* a tool-result item for call X whose content is the pending sentinel
PendingSentinel(item, X) ==
  /\ item.role = "tool" /\ item.tool_call_id = X
  /\ item.content.kind = "str" /\ Contains(item.content.str, MARKER)
\* what the claim expects in place of history item it
Replaced(it, tool_results) ==
  IF it.role = "tool" /\ PendingSentinel(it, it.tool_call_id)
       /\ ResultsFor(it.tool_call_id, tool_results) # <<>>
  THEN LET r == Head(ResultsFor(it.tool_call_id, tool_results))
       IN ToolItem(it.tool_call_id,
                   IF r.result.some THEN r.result.str
                   ELSE ExecutedSuccessfully(r.tool_name))
  ELSE it
\* the rewrite step of a continuation has just run, no storage call failing
Rewritten == op.name = "rewrite" /\ op.failed = "none"

\* C1: when the history holds a pending-sentinel item for call X and the
\* continuation is given a result for X, the history written back has the
\* result text (the fallback only when the result is absent) at that item's
\* position and every other item unchanged, in the original order.
C1_SentinelReplacement ==
  (/\ Rewritten
   /\ \E i \in 1..Len(op.old_items) :
        /\ PendingSentinel(op.old_items[i], op.old_items[i].tool_call_id)
        /\ ResultsFor(op.old_items[i].tool_call_id, op.tool_results) # <<>>)
    => SessionItems = [i \in 1..Len(op.old_items) |->
                         Replaced(op.old_items[i], op.tool_results)]

\* content of the session that carries the pending payload of call X
PendingPayload(item, X) ==
  \/ PendingSentinel(item, X)
  \/ item.call_id = X /\ Contains(item.output, MARKER)

\* C2: after a fresh run in which the agent invoked a client tool with call id
\* X, a continuation supplying a result for X leaves no pending payload for X
\* in the session when generation resumes.
C2_SuspendResume ==
  (Rewritten /\ phase = "running" /\ run.turns = 0)
    => \A k \in 1..Len(op.tool_results) :
         LET X == op.tool_results[k].tool_call_id
         IN (\E i \in 1..Len(op.old_items) :
               /\ op.old_items[i].type = "function_call"
               /\ op.old_items[i].call_id = X)
              => \A i \in 1..NSession : ~PendingPayload(SessionItems[i], X)

\* the request carries one or more client tool results
HasResults(req) == req.tool_results.some /\ Len(req.tool_results.list) >= 1

\* C3: a request takes the continuation path exactly when it carries one or
\* more tool results (None and the empty list take the fresh path), and the
\* message of a continuation is not the input of its run.
C3_RunMode ==
  /\ phase \in {"fresh", "continuation"}
       => ((phase = "continuation") <=> HasResults(request))
  /\ run.mode # "none"
       => /\ (run.mode = "continuation") <=> HasResults(request)
          /\ run.mode = "continuation" => run.input = <<>>
          /\ run.mode = "fresh" => run.input = request.message
C3_Witness ==
  /\ run.mode = "continuation" /\ request.message # <<>> /\ HasResults(request)
  /\ phase = "done"
C3_WitnessEmptyList ==
  /\ run.mode = "fresh" /\ request.tool_results = SomeList(<<>>)

\* the positions of the run's items that are calls of a client tool
ClientCalls == {k \in 1..Len(run.new_items) :
                  /\ run.new_items[k].type = "function_call"
                  /\ run.new_items[k].name \in run.stubs}
\* C4: once the agent has invoked a client tool, the request starts no further
\* model turn, the stream carries no assistant text after the call, the only
\* result recorded for the call is the pending payload, and the stream carries
\* that pending marker before it ends.
C4_SuspensionHalts ==
  /\ [](\A k \in ClientCalls :
          LET id == run.new_items[k].call_id
          IN /\ phase = "done"
             /\ k = Len(run.new_items) - 1
             /\ run.new_items[k + 1]
                  \in {FunctionCallOutputItem(
                          id, client_tool_handler(run.new_items[k].name, id, a)) :
                        a \in ArgumentPool}
             /\ \E i \in 1..Len(stream) :
                  /\ stream[i].type = "tool_call" /\ stream[i].call_id = id
                  /\ \A j \in (i + 1)..Len(stream) :
                       stream[j].type \notin {"message_output", "text_delta"}
                  /\ \E j \in (i + 1)..Len(stream) :
                       /\ stream[j].call_id = id
                       /\ Contains(stream[j].output, MARKER))
  /\ [][ClientCalls # {} => (run' = run /\ stream' = stream) \/ nreq' # nreq]_vars
C4_Witness ==
  /\ ClientCalls # {} /\ phase = "done" /\ run.halted
  /\ Truthy(request.client_tools)

\* C5: when the agent calls a client tool in a fresh turn, the stream has a
\* tool_call event naming the tool, later a suspension signal, and no
\* tool_output event for that call before the suspension.
C5_SuspensionShape ==
  \A k \in ClientCalls :
    LET id == run.new_items[k].call_id
    IN \E i \in 1..Len(stream) :
         /\ stream[i].type = "tool_call"
         /\ stream[i].tool_name = run.new_items[k].name
         /\ \E j \in (i + 1)..Len(stream) :
              /\ stream[j].type \in {"client_tool_execution_required", "execution_paused"}
              /\ \A l \in 1..(j - 1) :
                   ~(stream[l].type = "tool_output" /\ stream[l].call_id = id)

\* C10: after the rewrite step of a continuation, whatever storage call
\* failed, the stored history is the complete history from before or the
\* complete reconstruction of it.
C10_AtomicRewrite ==
  op.name = "rewrite"
    => SessionItems \in {op.old_items, UpdatedItems(op.old_items, op.tool_results)}

\* result r is for the call of a pending-sentinel item of history h
Matched(r, h) ==
  \E i \in 1..Len(h) : PendingSentinel(h[i], r.tool_call_id)

\* C11: a supplied result whose tool_call_id is that of no pending-sentinel
\* item has no effect: the history written back is the one written when only
\* the matching results are supplied.
C11_UnmatchedIgnored ==
  Rewritten
    => SessionItems
         = UpdatedItems(op.old_items,
                        SelectSeq(op.tool_results, LAMBDA r : Matched(r, op.old_items)))
C11_Witness ==
  /\ Rewritten
  /\ \E k \in 1..Len(op.tool_results) : ~Matched(op.tool_results[k], op.old_items)
  /\ \E k \in 1..Len(op.tool_results) : Matched(op.tool_results[k], op.old_items)
  /\ \E i \in 1..NSession : SessionItems[i] = ToolItem(CallX, <<"Playing now">>)

\* C12: continue_after_client_tools called with a manager that has no session
\* raises at once: the step that finds the session missing reads and writes
\* nothing in the store, starts no run and yields no wire event, and no
\* continuation without a session gets past that step.
C12_NoSessionFailsFirst ==
  /\ []((~manager.session /\ phase # "continuation")
          => (phase = "failed" /\ raised = "ValueError" /\ run = NoRun /\ stream = <<>>))
  /\ [][(~manager.session /\ phase = "continuation")
          => (UNCHANGED storeVars /\ run' = NoRun /\ stream' = <<>>
                /\ raised' = "ValueError")]_vars
C12_Witness ==
  /\ ~manager.session /\ phase = "failed" /\ raised = "ValueError"
  /\ \E i \in 1..NSession : PendingSentinel(SessionItems[i], CallX)

\* the generation turns whose activity the stream shows
TurnsShown == Len(SelectSeq(stream, LAMBDA e : e.type = "response_created"))

\* C13: a run, fresh or resumed, performs at most 5 generation turns and the
\* stream never carries the activity of a sixth; the attempt to start a sixth
\* ends the run and adds nothing to the stream.
C13_TurnBudget ==
  /\ [](run.turns <= 5 /\ TurnsShown <= 5)
  /\ [][run.turns = 5 => (run' = run /\ stream' = stream) \/ nreq' # nreq]_vars
C13_Witness ==
  /\ run.mode = "continuation" /\ run.turns = 5 /\ TurnsShown = 5
  /\ raised = "MaxTurnsExceeded" /\ phase = "failed"
C13_WitnessFresh ==
  /\ run.mode = "fresh" /\ run.turns = 5 /\ raised = "MaxTurnsExceeded"

\* C14: a stream that ends without an error, by the natural end of the turn
\* or by exhaustion of the turn budget, has a done event as its last line.
C14_TrailingDone ==
  (phase = "done" \/ (phase = "failed" /\ raised = "MaxTurnsExceeded"))
    => (stream # <<>> /\ stream[Len(stream)].type = "done")

\* C15: the run resumed by a continuation that supplies client tools has
\* those tools registered and stops at them.
C15_ContinuationSuspends ==
  (run.mode = "continuation" /\ Truthy(request.client_tools))
    => /\ Range(Names(request.client_tools.list)) \subseteq Range(run.tools)
       /\ run.stop_at = Range(Names(request.client_tools.list))

\* C16: the agent run by run_agent_stream has the original agent's tools
\* followed by one stub per element of the client tool list L (same names,
\* same order) and stops at exactly the names of L; with L empty or absent
\* its tools are the original's and no stop condition is set.
C16_Registration ==
  run.mode = "fresh"
    => LET L == request.client_tools
       IN IF L.some /\ L.list # <<>>
          THEN /\ run.tools = AgentTools \o Names(L.list)
               /\ run.stop_at = Range(Names(L.list))
          ELSE run.tools = AgentTools /\ run.stop_at = {}

StoreOps == {"get_items", "add_items", "pop_item", "clear_session"}

\* C18: no call of get_items, add_items, pop_item or clear_session raises,
\* whichever step of it the backing store fails at, obtaining the pooled
\* client and loading or creating the session row included.
C18_NeverPropagates == op.name \in StoreOps => ~op.raised

\* the steps of a pop_item none of whose storage calls fails
PopStep == \E finit \in EnsureFails : pop_item("none", finit) /\ ~op'.raised

\* C19: on a session whose conversation row exists, a pop_item that does not
\* fail returns the last item of the history, leaves the history without that
\* item and advances updated_at; on an empty session it returns nothing and
\* changes neither the items nor updated_at.
C19_PopLast ==
  [][(PopStep /\ conversation)
       => IF SessionItems = <<>>
          THEN ret' = <<>> /\ messages' = messages /\ updated_at' = updated_at
          ELSE /\ ret' = <<SessionItems[NSession]>>
               /\ SessionItems' = SubSeq(SessionItems, 1, NSession - 1)
               /\ updated_at' > updated_at]_vars

\* the steps of a clear_session none of whose storage calls fails
ClearStep == \E finit \in EnsureFails : clear_session("none", finit) /\ ~op'.raised

\* C20: after a clear_session that does not fail, on a session whose
\* conversation row exists (before the call or created by it), the session
\* has no items whatever it held, updated_at is later than it was, and the
\* conversation row exists.
C20_ClearEmpties ==
  [][(ClearStep /\ (conversation \/ conversation'))
       => /\ SessionItems' = <<>>
          /\ get_items_result(Now', NoLimit, "none") = {<<>>}
          /\ updated_at' > updated_at
          /\ conversation']_vars
C20_Witness ==
  /\ op.name = "clear_session" /\ op.failed = "none"
  /\ op.old_len = 2 /\ messages = <<>>
  /\ conversation /\ updated_at > op.old_updated_at

\* --------------------------------------------- claims on the wire events
\* C21: the lines a generator has yielded are the raw events it has consumed,
\* mapped one by one through process_event with the None results removed (same
\* order, nothing twice, nothing lost), and consuming one more raw event adds
\* that event's line, if it has one, after the lines already yielded.
C21_WireOrder ==
  /\ [](stream = Yielded(raw))
  /\ [][raw' # raw
          => /\ SubSeq(raw', 1, Len(raw)) = raw /\ Len(raw') = Len(raw) + 1
             /\ stream' = stream \o process_event(raw'[Len(raw')])]_vars
C21_Witness ==
  /\ Len(raw) = 2 /\ Len(stream) = 1
  /\ process_event(raw[1]) = <<>> /\ stream[1].type = "text_delta"

\* the event matches no custom-dict type, no run-item name of the lookup
\* table and no payload type of the lookup table
Unmatched(event) ==
  /\ ~(event.cls = "dict"
         /\ event.name \in {"client_tool_call", "execution_paused",
                            "client_tool_execution_required", "done"})
  /\ event.cls # "AgentUpdatedStreamEvent"
  /\ ~(event.cls = "RunItemStreamEvent"
         /\ event.name \in {"tool_called", "tool_output", "message_output_created",
                            "handoff_requested", "reasoning_item_created",
                            "mcp_approval_requested", "mcp_list_tools"})
  /\ event.data \notin {"ResponseTextDeltaEvent", "ResponseCreatedEvent",
                         "ResponseOutputItemAddedEvent", "ResponseContentPartAddedEvent",
                         "ResponseContentPartDoneEvent", "ResponseOutputItemDoneEvent",
                         "ResponseFunctionCallArgumentsDeltaEvent",
                         "ResponseCompletedEvent"}

WireTypes ==
  {"agent_updated", "text_delta", "tool_call", "tool_output", "message_output",
   "handoff_requested", "reasoning_created", "mcp_approval_requested",
   "mcp_list_tools", "response_created", "output_item_added", "content_part_added",
   "content_part_done", "output_item_done", "function_call_arguments_delta",
   "response_completed", "client_tool_execution_required", "done"}

\* C23: every wire event process_event returns has a type of the closed set
\* of 18 wire types.
C23_ClosedTypes == \A i \in 1..Len(stream) : stream[i].type \in WireTypes

\* the positions of the consumed raw events that are tool calls whose
\* argument text json.loads rejects
MalformedCalls ==
  {i \in 1..Len(raw) :
     /\ raw[i].cls = "RunItemStreamEvent" /\ raw[i].name = "tool_called"
     /\ ~Parseable(raw[i].arguments)}

\* C24: for a call of a client tool whose arguments are not parseable JSON
\* the stream has the tool_call event, with an empty argument object,
\* followed by the output of the stub: the pending payload with empty
\* parameters.
C24_MalformedArguments ==
  \A i \in MalformedCalls :
    \E j \in 1..(Len(stream) - 1) :
      /\ stream[j].type = "tool_call"
      /\ stream[j].call_id = raw[i].call_id /\ stream[j].tool_name = raw[i].tool_name
      /\ stream[j].arguments = <<>>
      /\ stream[j + 1].type = "tool_output"
      /\ stream[j + 1].output = <<"{", MARKER, raw[i].tool_name, raw[i].call_id, "}">>
C24_Witness ==
  /\ MalformedCalls # {} /\ phase = "done" /\ run.halted
  /\ \E i \in 1..NSession :
       SessionItems[i] = FunctionCallOutputItem(CallX, <<"{", MARKER, PlayMusic, CallX, "}">>)

\* ------------------------------------------ claims on the request boundary
\* C25: when the generator of a response that has started fails, the
\* failure is turned into one terminal error line of the response.
C25_FailureSignalled ==
  (response.status = 200 /\ phase = "failed")
    => /\ stream # <<>>
       /\ stream[Len(stream)].type = "error"
       /\ \A i \in 1..(Len(stream) - 1) : stream[i].type # "error"

\* C26: a request whose agent_key is not a value of AgentKey, on a session
\* that could be created, gets status 400 with the key in the detail, and no
\* run is started for it.
C26_InvalidAgentKey ==
  (nreq > 0 /\ request.agent_key \notin AgentKey /\ ~(op.name = "create" /\ op.raised))
    => /\ response.status = 400
       /\ Contains(response.detail, request.agent_key)
       /\ run = NoRun /\ stream = <<>>

\* C30: the title task never raises to its caller whichever collaborator
\* fails; it runs only when the stream of its response has ended, and the step
\* it takes changes only the title.
C30_TitleTask ==
  /\ [](background.state # "raised")
  /\ [][background'.state \in {"ran", "raised"} /\ background.state = "added"
          => /\ phase = "done"
             /\ UNCHANGED <<messages, updated_at, clock, conversation, initialized,
                            phase, request, run, stream, nreq, raised, raw, response>>]_vars
C30_Witness ==
  /\ background = Background("ran", "none") /\ title = <<"Music">>
C30_WitnessFailure ==
  /\ background = Background("ran", "update") /\ title = NewChat
  /\ NSession > 0 /\ conversation

\* ------------------------------------------------- claims on isolation
\* the rows of the other keys, in table order
OtherRows(m) ==
  SelectSeq(m, LAMBDA r : ~(r.session_id = SessionId /\ r.user_id = UserId))

\* C27: whatever calls are made on this session, the rows of every other key
\* (the key with the same session_id and another user_id included) stay as
\* they were, so get_items for those keys returns what it did, and no call on
\* this session returns an item added under another key.
C27_Isolation ==
  /\ OtherRows(messages) = ForeignRows
  /\ \A i \in 1..Len(ret) : ret[i] # Secret
C27_Witness ==
  /\ op.name = "clear_session" /\ op.failed = "none"
  /\ op.old_len = Len(ForeignRows) + 2 /\ messages = ForeignRows

\* ------------------------------------------------ claims on concurrency
\* C28: however the initializations of the session objects of one pair
\* interleave, and whether or not their existence checks fail, at most one
\* conversation row is inserted for the pair and none when a row existed.
C28_CreateOnce ==
  /\ conversations.inserted <= 1
  /\ conversations.existed => conversations.inserted = 0

\* C29: however _get_or_create_client calls with one url and key interleave,
\* the pool entry is written at most once and every session holds the client
\* that is stored in the pool.
C29_PoolWrittenOnce ==
  /\ connection_pool.writes <= 1
  /\ connection_pool.created <= 1
  /\ \A p \in 1..MaxSessions :
       sessions[p].supabase # 0 => sessions[p].supabase = connection_pool.client

\* ------------------------------------------------- claims on the factories
\* C31: every member of AgentKey has a factory; a call that returned was for a
\* member and returned an Agent with a non-empty name; a call with a key that
\* is no configured agent raised ValueError whose text says the agent is
\* "not found in configuration", and created nothing.
C31_FactoryDomain ==
  /\ DOMAIN AGENT_FACTORIES = AgentKey
  /\ \A p \in 1..MaxSessions :
       LET c == callers[p]
       IN /\ c.pc = "returned" => c.key \in AgentKey /\ Len(c.name) > 0
          /\ c.pc # "idle" /\ c.key \notin AgentKey =>
               /\ c.pc = "raised"
               /\ ~c.created
               /\ Contains(c.message, "not found in configuration")

\* C40: however get_mcp_servers calls interleave, one MCPManager is created,
\* the factory of a server name is invoked at most once, and every caller
\* holds a proxy of the server that is stored.
C40_OneConnection ==
  /\ mcp.instances <= 1
  /\ mcp.opened <= 1
  /\ \A p \in 1..MaxSessions :
       callers[p].pc = "returned" /\ callers[p].proxy # 0 =>
         callers[p].proxy = mcp.servers

\* ------------------------------------------------ claims on ChatService
\* the rows of table t that are not of the pair the last call named
NotOfCall(t) ==
  SelectSeq(t, LAMBDA r : ~(r.session_id = svc.session_id /\ r.user_id = svc.user_id))

\* the caller of the last call owned a conversation with that session_id
CallerOwned ==
  \E i \in 1..Len(svc.old_chats) :
    /\ svc.old_chats[i].session_id = svc.session_id
    /\ svc.old_chats[i].user_id = svc.user_id

\* C32: a delete, archive, star, title update or get by a user who owns no
\* conversation with that session_id raises ValueError and leaves both tables
\* as they were; a call by the owner leaves every row of another
\* (session_id, user_id) as it was.
C32_OwnerOnly ==
  svc.name # "none" =>
    /\ ~CallerOwned => svc.raised /\ chats = svc.old_chats /\ messages = svc.old_messages
    /\ NotOfCall(chats) = NotOfCall(svc.old_chats)
    /\ NotOfCall(messages) = NotOfCall(svc.old_messages)

\* a user was refused the conversation of another user
C32_Witness ==
  /\ svc.name = "delete_conversation" /\ svc.raised
  /\ \E i \in 1..Len(chats) :
       chats[i].session_id = svc.session_id /\ chats[i].user_id # svc.user_id

\* an owner deleted a conversation, and its messages, whose session_id another
\* user's conversation shares
C32_WitnessOwner ==
  /\ svc.name = "delete_conversation" /\ ~svc.raised
  /\ Len(messages) < Len(svc.old_messages)
  /\ \E i \in 1..Len(chats) : chats[i].session_id = svc.session_id

\* the ids of the messages of the last call's conversation, oldest first
Chronological ==
  SelectSeq([i \in 1..Len(messages) |-> i],
            LAMBDA i : /\ messages[i].session_id = svc.session_id
                       /\ messages[i].user_id = svc.user_id)

\* C33: get_conversation(limit, offset) on N messages returns, oldest first,
\* the messages left after skipping the offset most recent and taking the next
\* limit; total_messages is N; has_more says whether older messages remain;
\* the pages at offsets 0, limit, 2*limit, ... together are every message once.
C33_Pagination ==
  svc.name = "get_conversation" /\ ~svc.raised =>
    LET N == Len(Chronological)
        hi == N - svc.offset
        lo == IF hi - svc.limit + 1 < 1 THEN 1 ELSE hi - svc.limit + 1
    IN /\ svc.page = SubSeq(Chronological, lo, hi)
       /\ svc.total = N
       /\ svc.has_more = (N - svc.offset - svc.limit > 0)
       /\ svc.next > 0 /\ ~svc.has_more => svc.seen = Chronological

\* ------------------------------------------------ claims on resumption
\* the user-role items of a list of items
UserTurns(items) == SelectSeq(items, LAMBDA it : it.role = "user")

\* C34: in a continuation nothing is generated or yielded before the rewrite:
\* while the continuation waits there is no run and no wire event, and the
\* step that starts the run or yields the first event is the one in which
\* clear_session and add_items have returned (the history holds the
\* reconstructed list when no storage call failed); the run starts with empty
\* input, on the session of the request, with a budget of 5 turns.
C34_ResumeAfterRewrite ==
  [][ /\ phase = "continuation" => run = NoRun /\ stream = <<>>
      /\ run'.mode = "continuation" /\ (run.mode # "continuation" \/ stream = <<>>) =>
           /\ phase = "continuation"
           /\ op'.name = "rewrite" /\ ~op'.raised
           /\ op'.failed = "none" =>
                Stored(messages') = SelectSeq(op'.updated_items,
                                              LAMBDA it : ~is_empty_user_message(it))
           /\ run'.input = <<>> /\ run'.turns = 0
           /\ manager'.session
           /\ max_turns = 5 ]_vars

\* a continuation that replaced a sentinel has just started its run
C34_Witness ==
  /\ phase = "running" /\ run.mode = "continuation" /\ run.turns = 0
  /\ Rewritten /\ stream # <<>>
  /\ \E i \in 1..NSession : SessionItems[i] = ToolItem(CallX, <<"Playing now">>)

\* C35: no step of a continuation (the rewrite, a turn of the resumed run and
\* its save) adds a user-role item: the user-role items stored after the step
\* are among those stored before it, and the empty input is never stored.
C35_NoUserTurnAdded ==
  [][ phase = "continuation" \/ (phase = "running" /\ run.mode = "continuation") =>
        /\ Len(UserTurns(Stored(messages'))) <= Len(UserTurns(Stored(messages)))
        /\ \A i \in 1..Len(UserTurns(Stored(messages'))) :
             \E j \in 1..Len(UserTurns(Stored(messages))) :
               UserTurns(Stored(messages'))[i] = UserTurns(Stored(messages))[j]
        /\ \A i \in 1..Len(Stored(messages')) :
             Stored(messages')[i] # UserItem(StrContent(<<>>)) ]_vars

\* C36: the list the rewrite writes back is as long as the history it read,
\* and a pending-sentinel item for which no result was supplied is in it,
\* unchanged, at its position.
C36_PresenceAndPosition ==
  op.name = "rewrite" /\ ~op.raised =>
    /\ Len(op.updated_items) = Len(op.session_items)
    /\ \A i \in 1..Len(op.session_items) :
         /\ IsPending(op.session_items[i])
         /\ ResultsFor(op.session_items[i].tool_call_id, op.tool_results) = <<>>
         => /\ i <= Len(op.updated_items)
            /\ op.updated_items[i] = op.session_items[i]

\* C38: the content that replaces a sentinel does not say the tool executed
\* successfully when the result supplied for the call carries an error and no
\* result text, and is the result text itself when that text is empty.
C38_FailureNotSuccess ==
  op.name = "rewrite" /\ ~op.raised =>
    \A i \in 1..Len(op.session_items) :
      LET it == op.session_items[i]
          rs == ResultsFor(it.tool_call_id, op.tool_results)
      IN IsPending(it) /\ rs # <<>> =>
           \A j \in 1..Len(op.updated_items) :
             LET new == op.updated_items[j]
             IN new.role = "tool" /\ new.tool_call_id = it.tool_call_id =>
                  /\ Head(rs).error.some /\ ~Head(rs).result.some =>
                       ~Contains(new.content.str, "executed successfully")
                  /\ Head(rs).result = Some(<<>>) => new.content.str = <<>>

\* ------------------------------------------------ claims on the token cache
\* a token has been presented
Presented == auth.token \in issued

C39_WitnessHit ==
  /\ Presented /\ auth.hit /\ auth.cached = "u1"
  /\ Cardinality(DOMAIN token_cache) = 2

\* ------------------------------------- claims on concurrent requests
\* how often item x is in list l
Count(l, x) == Cardinality({i \in 1..Len(l) : l[i] = x})

\* C37: when the rewrite of a continuation has ended, every item another
\* request appended to the session meanwhile is in the history, and no item
\* is in it twice.
C37_NoLostItems ==
  race.pc = "done" /\ race.appended # <<>> =>
    /\ \A k \in 1..Len(race.appended) : Count(SessionItems, race.appended[k]) = 1
    /\ \A i \in 1..NSession : Count(SessionItems, SessionItems[i]) = 1

====
